---- MODULE Spec2Model ----
(***************************************************************************)
(* Model of the CANopen SDO client of funcan-rs: the client transfer       *)
(* state machine (src/src/sdo/machines.rs), the SDO frame codec            *)
(* (src/src/sdo.rs, src/src/dictionary.rs, src/src/sdo/abort.rs), the      *)
(* COB-ID conversions (src/src/cobid.rs), the byte-stream frame parser     *)
(* (src/src/raw.rs) and the dispatch loop (src/src/client.rs).             *)
(***************************************************************************)
EXTENDS Integers, Sequences, FiniteSets, TLC

VARIABLES
    index,            \* ClientMachine.index
    state,            \* ClientMachine.state
    data_index,       \* ClientMachine.data_index
    read_responder,   \* ClientMachine.read_responder : Option<RR>
    write_responder,  \* ClientMachine.write_responder : Option<RW>
    data,             \* ClientMachine.data : [u8; 1024]
    panicked,         \* a call on the machine panicked (the thread unwound)
    obs,              \* value returned by observe(), when it was the most recent call
    last,             \* history: the most recent call and its argument
    rrArg,            \* history: index and responder passed to the most recent read
    rwArg,            \* history: index and responder passed to the most recent write
    wval,             \* history: value serialized by the write that armed the transfer
    nextResp,         \* history: next fresh responder identity
    doneCount,        \* history: per responder, number of Done observations returning it
    upl,              \* history: bytes accepted by the segmented upload in progress
    acks,             \* history: responses fed since the most recent write
    creq,             \* codec: a client request value
    cbuf,             \* codec: the 8 bytes it encodes to
    cdec,             \* codec: the result of decoding those bytes
    sresp,            \* codec: a server response value
    sbuf,             \* codec: the 8 bytes of a server response
    sdec,             \* codec: the result of decoding those bytes
    running,          \* loop: run() has not returned an error
    sent,             \* loop: frames handed to send_frame by the event handled last
    dictSet,          \* loop: objects handed to the dictionary setter by that event
    delivered,        \* loop: (responder, value) pairs handed to respond by that event
    ev,               \* loop history: the event handled last and the machine calls it made
    outstanding,      \* loop history: request frames sent and not yet answered
    bind,             \* loop history: node of the command accepted last, node of the frame received last
    srv,              \* the peer: its object and cursor, the request it holds, its response in flight
    fcode,            \* COB-ID: a FunCode value
    fcob,             \* COB-ID: the identifier it encodes to, or one taken from the bus
    fdec,             \* COB-ID: the FunCode decoded from that identifier
    parser,           \* CANFrameMachine: state, can_frame, len, index
    rawFrame,         \* frame parser history: the frame that was serialized
    rawIn,            \* frame parser: the bytes to feed
    rawFed,           \* frame parser: number of bytes fed so far
    rawObs,           \* frame parser history: value of observe() after each byte fed
    rawOut            \* frame parser: bytes written back by write_to_slice

machineVars == <<index, state, data_index, read_responder, write_responder, data, panicked>>
histVars == <<obs, last, rrArg, rwArg, wval, nextResp, doneCount, upl, acks>>
codecVars == <<creq, cbuf, cdec, sresp, sbuf, sdec>>
loopVars == <<running, sent, dictSet, delivered, ev, outstanding, bind, srv>>
frameVars == <<fcode, fcob, fdec, parser, rawFrame, rawIn, rawFed, rawObs, rawOut>>
vars == <<index, state, data_index, read_responder, write_responder, data, panicked,
          obs, last, rrArg, rwArg, wval, nextResp, doneCount, upl, acks,
          creq, cbuf, cdec, sresp, sbuf, sdec,
          running, sent, dictSet, delivered, ev, outstanding, bind, srv,
          fcode, fcob, fdec, parser, rawFrame, rawIn, rawFed, rawObs, rawOut>>

----------------------------------------------------------------------------
(* Bounds of the model and constants of the program *)

\* capacity of the machine buffer, data: [u8; 1024]
DATA_LEN == 1024

\* responders handed out in one run (each read or write call takes a fresh one)
MaxResp == 2

\* reads in one run of the upload specification
MaxUpReads == 1

\* outside the long upload, segments stop once the cursor would pass this many bytes
MaxUploadBytes == 14

\* longest value the download scenario writes
MaxWriteLen == 22

Byte == 0 .. 255

Min(a, b) == IF a < b THEN a ELSE b

\* Option<T>
None == <<>>
Some(x) == <<x>>

\* Index { index: u16, sub: u8 }
Index(i, s) == <<i, s>>

\* ToggleBit(bool), with its Not implementation
ToggleBit(b) == b

\* variant: the toggle stays as it is
ToggleNot_Stuck(t) == t

\* impl Not for ToggleBit
ToggleNot(t) == ~t

----------------------------------------------------------------------------
(* ClientState, Error, ServerResponse, ClientRequest, ClientOutput values *)

NoIx == Index(0, 0)
NoErr == [kind |-> "None", a |-> NoIx, b |-> NoIx]

St(tag, t, n, e) == [tag |-> tag, toggle |-> t, n |-> n, err |-> e]

Idle == St("Idle", FALSE, 0, NoErr)
InitUpload == St("InitUpload", FALSE, 0, NoErr)
SingleSegmentUploaded == St("SingleSegmentUploaded", FALSE, 0, NoErr)
UploadingMultiples(t) == St("UploadingMultiples", t, 0, NoErr)
MultiplesUploaded == St("MultiplesUploaded", FALSE, 0, NoErr)
InitSingleDownload(n) == St("InitSingleDownload", FALSE, n, NoErr)
InitMultipleDownload(n) == St("InitMultipleDownload", FALSE, n, NoErr)
DownloadingSegments(t, n) == St("DownloadingSegments", t, n, NoErr)
DownloadCompleted == St("DownloadCompleted", FALSE, 0, NoErr)
ErrorState(e) == St("ErrorState", FALSE, 0, e)

StateResponseMismatch == [kind |-> "StateResponseMismatch", a |-> NoIx, b |-> NoIx]
IndexMismatch(x, y) == [kind |-> "IndexMismatch", a |-> x, b |-> y]
ToggleMismatch == [kind |-> "ToggleMismatch", a |-> NoIx, b |-> NoIx]
BufferOverflow == [kind |-> "BufferOverflow", a |-> NoIx, b |-> NoIx]

\* ServerResponse
UploadSingleSegment(ix, n, d) == <<"UploadSingleSegment", ix, n, d>>
UploadInitMultiples(ix, size) == <<"UploadInitMultiples", ix, size>>
UploadMultiples(t, end, n, d) == <<"UploadMultiples", t, end, n, d>>
DownloadInitAck(ix) == <<"DownloadInitAck", ix>>
DownloadSegmentAck(t) == <<"DownloadSegmentAck", t>>

\* ClientRequest
ReqInitUpload(ix) == <<"InitUpload", ix>>
ReqUploadSegment(t) == <<"UploadSegment", t>>
ReqInitSingleSegmentDownload(ix, n, d) == <<"InitSingleSegmentDownload", ix, n, d>>
ReqInitMultipleDownload(ix, n) == <<"InitMultipleDownload", ix, n>>
ReqDownloadSegment(t, end, n, d) == <<"DownloadSegment", t, end, n, d>>
ReqAbortTransfer(ix, code) == <<"AbortTransfer", ix, code>>

\* ClientResult
UploadCompleted(ix, buf, n, r) == <<"UploadCompleted", ix, buf, n, r>>
DownloadCompletedRes(r) == <<"DownloadCompleted", r>>
TransferAborted(code) == <<"TransferAborted", code>>

\* ClientOutput; Panicked stands for a call that did not return
Output(req) == <<"Output", req>>
Done(res) == <<"Done", res>>
Error(e) == <<"Error", e>>
Ready == <<"Ready">>
Panicked == <<"Panic">>
NoObs == <<"NoObs">>

----------------------------------------------------------------------------
(* Slices of the buffer *)

\* &buf[lo..hi] as a sequence of hi - lo bytes
Slice(buf, lo, hi) == [k \in 1 .. (hi - lo) |-> buf[lo + k - 1]]

\* buf[lo .. lo + Len(src)].copy_from_slice(src)
CopyInto(buf, lo, src) ==
    [p \in DOMAIN buf |-> IF p >= lo /\ p < lo + Len(src) THEN src[p - lo + 1] ELSE buf[p]]

\* the first n elements of a sequence
Take(s, n) == [k \in 1 .. n |-> s[k]]

\* a sequence padded with zeros to length n
PadTo(s, n) == [k \in 1 .. n |-> IF k <= Len(s) THEN s[k] ELSE 0]

ZeroBuf == [p \in 0 .. (DATA_LEN - 1) |-> 0]

----------------------------------------------------------------------------
(* ClientMachine::transit, one operator per guard and per arm of the match *)

\* res_index != self.index
IndexDiffers(res_index, ix) == res_index # ix

\* variant: the two indices are stored in the other order
IndexMismatchOf_Swapped(res_index, ix) == IndexMismatch(ix, res_index)

\* Error::IndexMismatch(res_index, self.index)
IndexMismatchOf(res_index, ix) == IndexMismatch(res_index, ix)

\* variant: the toggle of the response is not looked at
ToggleDiffers_Never(res_toggle, toggle) == FALSE

\* res_toggle != *toggle
ToggleDiffers(res_toggle, toggle) == res_toggle # toggle

\* variant: the check allows one segment more than the buffer holds
UploadOverflows_Late(idx, data_len) == idx + data_len > DATA_LEN + 7

\* idx + data_len > self.data.len()
UploadOverflows(idx, data_len) == idx + data_len > DATA_LEN

\* variant: the cursor advances on every acknowledgement
MoreToDownload_Always(di, n) == TRUE

\* variant: a cursor that reaches the end exactly is taken for more to send
MoreToDownload_Inclusive(di, n) == di + 7 <= n

\* self.data_index + 7 < *n
MoreToDownload(di, n) == di + 7 < n

\* the outcome of one call: the fields the call may assign, and whether it panicked
Outcome(st, di, buf, p) == [state |-> st, data_index |-> di, data |-> buf, panic |-> p]

\* variant: the byte count of the response is dropped and 4 is stored
TransitUploadSingleSegment_AlwaysFour(ix, di, buf, res_index, len, d) ==
    IF res_index # ix
    THEN Outcome(ErrorState(IndexMismatch(res_index, ix)), di, buf, FALSE)
    ELSE Outcome(SingleSegmentUploaded, 4, CopyInto(buf, 0, d), FALSE)

\* (InitUpload, UploadSingleSegment(res_index, len, data))
TransitUploadSingleSegment(ix, di, buf, res_index, len, d) ==
    IF IndexDiffers(res_index, ix)
    THEN Outcome(ErrorState(IndexMismatchOf(res_index, ix)), di, buf, FALSE)
    ELSE Outcome(SingleSegmentUploaded, len, CopyInto(buf, 0, d), FALSE)

\* variant: the segmented upload starts with the toggle set
TransitUploadInitMultiples_ToggleSet(ix, di, buf, res_index) ==
    IF res_index # ix
    THEN Outcome(ErrorState(IndexMismatch(res_index, ix)), di, buf, FALSE)
    ELSE Outcome(UploadingMultiples(ToggleBit(TRUE)), 0, buf, FALSE)

\* (InitUpload, UploadInitMultiples(res_index, _size))
TransitUploadInitMultiples(ix, di, buf, res_index) ==
    IF IndexDiffers(res_index, ix)
    THEN Outcome(ErrorState(IndexMismatchOf(res_index, ix)), di, buf, FALSE)
    ELSE Outcome(UploadingMultiples(ToggleBit(FALSE)), 0, buf, FALSE)

\* variant: every segment is copied to the front of the buffer
TransitUploadMultiples_FrontCopy(toggle, di, buf, res_toggle, end, len, d) ==
    IF res_toggle # toggle
    THEN Outcome(ErrorState(ToggleMismatch), di, buf, FALSE)
    ELSE IF di + len > DATA_LEN
         THEN Outcome(ErrorState(BufferOverflow), di, buf, FALSE)
         ELSE Outcome(IF end THEN MultiplesUploaded ELSE UploadingMultiples(~toggle),
                      di + len, CopyInto(buf, 0, Take(d, len)), FALSE)

\* (UploadingMultiples(toggle), UploadMultiples(res_toggle, end, len, data))
TransitUploadMultiples(toggle, di, buf, res_toggle, end, len, d) ==
    IF ToggleDiffers(res_toggle, toggle)
    THEN Outcome(ErrorState(ToggleMismatch), di, buf, FALSE)
    ELSE IF UploadOverflows(di, len)
         THEN Outcome(ErrorState(BufferOverflow), di, buf, FALSE)
         ELSE IF len > Len(d) \/ di + len > DATA_LEN
              THEN \* &data[0..data_len] or self.data[idx..idx + data_len] out of range
                   Outcome(UploadingMultiples(toggle), di, buf, TRUE)
              ELSE Outcome(IF end THEN MultiplesUploaded
                                  ELSE UploadingMultiples(ToggleNot(toggle)),
                           di + len, CopyInto(buf, di, Take(d, len)), FALSE)

\* (InitSingleDownload(_len), DownloadInitAck(res_index))
TransitSingleDownloadAck(ix, di, buf, res_index) ==
    IF IndexDiffers(res_index, ix)
    THEN Outcome(ErrorState(IndexMismatchOf(res_index, ix)), di, buf, FALSE)
    ELSE Outcome(DownloadCompleted, di, buf, FALSE)

\* (InitMultipleDownload(len), DownloadInitAck(res_index))
TransitMultipleDownloadAck(ix, di, buf, len, res_index) ==
    IF IndexDiffers(res_index, ix)
    THEN Outcome(ErrorState(IndexMismatchOf(res_index, ix)), di, buf, FALSE)
    ELSE Outcome(DownloadingSegments(ToggleBit(FALSE), len), di, buf, FALSE)

\* variant: a wrong toggle is reported as an unexpected response
TransitDownloadSegmentAck_SameError(toggle, n, di, buf, res_toggle) ==
    IF ToggleDiffers(res_toggle, toggle)
    THEN Outcome(ErrorState(StateResponseMismatch), di, buf, FALSE)
    ELSE IF MoreToDownload(di, n)
         THEN Outcome(DownloadingSegments(ToggleNot(toggle), n), di + 7, buf, FALSE)
         ELSE Outcome(DownloadCompleted, di, buf, FALSE)

\* (DownloadingSegments(toggle, n), DownloadSegmentAck(res_toggle))
TransitDownloadSegmentAck(toggle, n, di, buf, res_toggle) ==
    IF ToggleDiffers(res_toggle, toggle)
    THEN Outcome(ErrorState(ToggleMismatch), di, buf, FALSE)
    ELSE IF MoreToDownload(di, n)
         THEN Outcome(DownloadingSegments(ToggleNot(toggle), n), di + 7, buf, FALSE)
         ELSE Outcome(DownloadCompleted, di, buf, FALSE)

\* variant: an unexpected response also rewinds the cursor
TransitDefault_Rewind(di, buf) == Outcome(ErrorState(StateResponseMismatch), 0, buf, FALSE)

\* variant: an unexpected response resets the machine instead of parking it
TransitDefault_Reset(di, buf) == Outcome(Idle, di, buf, FALSE)

\* (_state, _response)
TransitDefault(di, buf) == Outcome(ErrorState(StateResponseMismatch), di, buf, FALSE)

\* match (&self.state, response)
TransitOf(st, ix, di, buf, resp) ==
    CASE st.tag = "InitUpload" /\ resp[1] = "UploadSingleSegment" ->
            TransitUploadSingleSegment(ix, di, buf, resp[2], resp[3], resp[4])
      [] st.tag = "InitUpload" /\ resp[1] = "UploadInitMultiples" ->
            TransitUploadInitMultiples(ix, di, buf, resp[2])
      [] st.tag = "UploadingMultiples" /\ resp[1] = "UploadMultiples" ->
            TransitUploadMultiples(st.toggle, di, buf, resp[2], resp[3], resp[4], resp[5])
      [] st.tag = "InitSingleDownload" /\ resp[1] = "DownloadInitAck" ->
            TransitSingleDownloadAck(ix, di, buf, resp[2])
      [] st.tag = "InitMultipleDownload" /\ resp[1] = "DownloadInitAck" ->
            TransitMultipleDownloadAck(ix, di, buf, st.n, resp[2])
      [] st.tag = "DownloadingSegments" /\ resp[1] = "DownloadSegmentAck" ->
            TransitDownloadSegmentAck(st.toggle, st.n, di, buf, resp[2])
      [] OTHER -> TransitDefault(di, buf)

----------------------------------------------------------------------------
(* ClientMachine::observe *)

\* what one observe() returns and what it leaves in the two responder fields
Observed(o, rr, rw, p) == [obs |-> o, read_responder |-> rr, write_responder |-> rw, panic |-> p]

\* variant: the responder is copied out and stays in the machine
TakeResponder_Keep(r) == r

\* core::mem::replace(&mut self.read_responder, None) leaves None behind
TakeResponder(r) == None

\* SingleSegmentUploaded and MultiplesUploaded
ObserveUploaded(ix, di, buf, rr, rw) ==
    Observed(Done(UploadCompleted(ix, buf, di, rr)), TakeResponder(rr), rw, FALSE)

\* InitSingleDownload(len): copy_from_slice needs a source of exactly 4 bytes
ObserveInitSingleDownload(ix, buf, len, rr, rw) ==
    IF len # 4
    THEN Observed(Panicked, rr, rw, TRUE)
    ELSE Observed(Output(ReqInitSingleSegmentDownload(ix, len % 256, Slice(buf, 0, len))),
                  rr, rw, FALSE)

\* DownloadingSegments(toggle, n): copy_from_slice needs a source of exactly 7 bytes
ObserveDownloadingSegments(toggle, n, di, buf, rr, rw) ==
    LET ix0 == di
        ix1 == Min(ix0 + 7, n)
        end == di + 7 >= n
    IN  IF ix0 > ix1 \/ ix1 > DATA_LEN \/ ix1 - ix0 # 7
        THEN Observed(Panicked, rr, rw, TRUE)
        ELSE Observed(Output(ReqDownloadSegment(toggle, end, 7, Slice(buf, ix0, ix1))),
                      rr, rw, FALSE)

\* variant: the download result carries what is in read_responder
ObserveDownloadCompleted_ReadResponder(rr, rw) ==
    Observed(Done(DownloadCompletedRes(rr)), TakeResponder(rr), rw, FALSE)

\* DownloadCompleted
ObserveDownloadCompleted(rr, rw) ==
    Observed(Done(DownloadCompletedRes(rw)), rr, TakeResponder(rw), FALSE)

\* match &self.state
ObserveOf(st, ix, di, buf, rr, rw) ==
    CASE st.tag = "Idle" -> Observed(Ready, rr, rw, FALSE)
      [] st.tag = "InitUpload" -> Observed(Output(ReqInitUpload(ix)), rr, rw, FALSE)
      [] st.tag = "SingleSegmentUploaded" -> ObserveUploaded(ix, di, buf, rr, rw)
      [] st.tag = "UploadingMultiples" ->
            Observed(Output(ReqUploadSegment(st.toggle)), rr, rw, FALSE)
      [] st.tag = "MultiplesUploaded" -> ObserveUploaded(ix, di, buf, rr, rw)
      [] st.tag = "InitSingleDownload" -> ObserveInitSingleDownload(ix, buf, st.n, rr, rw)
      [] st.tag = "InitMultipleDownload" ->
            \* *len as u32: len is a length written into the buffer, at most DATA_LEN
            Observed(Output(ReqInitMultipleDownload(ix, st.n)), rr, rw, FALSE)
      [] st.tag = "DownloadingSegments" ->
            ObserveDownloadingSegments(st.toggle, st.n, di, buf, rr, rw)
      [] st.tag = "DownloadCompleted" -> ObserveDownloadCompleted(rr, rw)
      [] st.tag = "ErrorState" -> Observed(Error(st.err), rr, rw, FALSE)

----------------------------------------------------------------------------
(* ClientMachine::read, ClientMachine::write, IntoBuf *)

\* t.into_buf(&mut self.data): the bytes of the value go to the front of the buffer
IntoBuf(buf, v) == CopyInto(buf, 0, v)

\* if n <= 4 { InitSingleDownload(n) } else { InitMultipleDownload(n) }
WriteState(n) == IF n <= 4 THEN InitSingleDownload(n) ELSE InitMultipleDownload(n)

----------------------------------------------------------------------------
(* History bookkeeping shared by the actions *)

\* the call being made and the kind of state it finds; rep counts consecutive observe
\* calls, up to 2
Call(op, arg, rep) == [op |-> op, arg |-> arg, rep |-> rep, pre |-> state.tag]

UplOff == [on |-> FALSE, fin |-> FALSE, toggle |-> FALSE, bytes |-> <<>>]

\* the segmented upload as the server sees it: started by an initiate response that
\* answers a read, continued by segments whose toggles alternate from false, whose
\* lengths are at most 7 and fit the buffer, closed by the first segment with last set
UplAfter(resp) ==
    CASE resp[1] = "UploadInitMultiples" /\ state.tag = "InitUpload" /\ resp[2] = rrArg[1] ->
            [on |-> TRUE, fin |-> FALSE, toggle |-> FALSE, bytes |-> <<>>]
      [] resp[1] = "UploadMultiples" /\ upl.on /\ ~upl.fin
           /\ resp[2] = upl.toggle /\ resp[4] <= 7
           /\ Len(upl.bytes) + resp[4] <= DATA_LEN ->
            [on |-> TRUE, fin |-> resp[3], toggle |-> ~upl.toggle,
             bytes |-> upl.bytes \o Take(resp[5], resp[4])]
      [] OTHER -> UplOff

\* one more Done observation returned the responder in r, if any
Counted(r) ==
    IF r = None THEN doneCount
    ELSE [x \in DOMAIN doneCount |-> IF x = r[1] THEN doneCount[x] + 1 ELSE doneCount[x]]

\* the responder carried by an observation, None when it carries none
ResponderOf(o) ==
    IF o[1] # "Done" THEN None
    ELSE IF o[2][1] = "UploadCompleted" THEN o[2][5] ELSE o[2][2]

----------------------------------------------------------------------------
(* The calls on a ClientMachine *)

InitMachine ==
    /\ index = Index(0, 0)
    /\ state = Idle
    /\ data_index = 0
    /\ read_responder = None
    /\ write_responder = None
    /\ data = ZeroBuf
    /\ panicked = FALSE

InitHist ==
    /\ obs = NoObs
    /\ last = [op |-> "new", arg |-> <<>>, rep |-> 0, pre |-> "Idle"]
    /\ rrArg = <<NoIx, 0>>
    /\ rwArg = <<NoIx, 0>>
    /\ wval = <<>>
    /\ nextResp = 1
    /\ doneCount = [x \in 1 .. MaxResp |-> 0]
    /\ upl = UplOff
    /\ acks = 0

InitCodec ==
    /\ creq = <<"none">>
    /\ cbuf = <<>>
    /\ cdec = <<"none">>
    /\ sresp = <<"none">>
    /\ sbuf = <<>>
    /\ sdec = <<"none">>

\* ClientMachine::read(index, r)
Read(ix, r) ==
    /\ ~panicked
    /\ index' = ix
    /\ read_responder' = Some(r)
    /\ state' = InitUpload
    /\ UNCHANGED <<data_index, write_responder, data, panicked>>
    /\ last' = Call("read", <<ix, r>>, 0)
    /\ rrArg' = <<ix, r>>
    /\ nextResp' = nextResp + 1
    /\ upl' = UplOff
    /\ obs' = NoObs
    /\ wval' = <<>>
    /\ UNCHANGED <<rwArg, doneCount, acks>>
    /\ UNCHANGED codecVars
    /\ UNCHANGED frameVars
    /\ UNCHANGED loopVars

\* ClientMachine::write(index, t, r)
Write(ix, v, r) ==
    /\ ~panicked
    /\ index' = ix
    /\ data' = IntoBuf(data, v)
    /\ write_responder' = Some(r)
    /\ state' = WriteState(Len(v))
    /\ UNCHANGED <<data_index, read_responder, panicked>>
    /\ last' = Call("write", <<ix, v, r>>, 0)
    /\ rwArg' = <<ix, r>>
    /\ wval' = v
    /\ nextResp' = nextResp + 1
    /\ upl' = UplOff
    /\ acks' = 0
    /\ obs' = NoObs
    /\ UNCHANGED <<rrArg, doneCount>>
    /\ UNCHANGED codecVars
    /\ UNCHANGED frameVars
    /\ UNCHANGED loopVars

\* ClientMachine::initial()
Initial ==
    /\ ~panicked
    /\ state' = Idle
    /\ data_index' = 0
    /\ UNCHANGED <<index, read_responder, write_responder, data, panicked>>
    /\ last' = Call("initial", <<>>, 0)
    /\ upl' = UplOff
    /\ obs' = NoObs
    /\ wval' = <<>>
    /\ UNCHANGED <<rrArg, rwArg, nextResp, doneCount, acks>>
    /\ UNCHANGED codecVars
    /\ UNCHANGED frameVars
    /\ UNCHANGED loopVars

\* ClientMachine::transit(response), without the count of acknowledgements
TransitCall(resp) ==
    LET r == TransitOf(state, index, data_index, data, resp)
    IN  /\ ~panicked
        /\ state' = r.state
        /\ data_index' = r.data_index
        /\ data' = r.data
        /\ panicked' = r.panic
        /\ UNCHANGED <<index, read_responder, write_responder>>
        /\ last' = Call("transit", resp, 0)
        /\ upl' = UplAfter(resp)
        /\ obs' = NoObs
        /\ UNCHANGED <<rrArg, rwArg, wval, nextResp, doneCount>>
        /\ UNCHANGED codecVars
        /\ UNCHANGED frameVars
        /\ UNCHANGED loopVars

\* ClientMachine::observe()
Observe ==
    LET r == ObserveOf(state, index, data_index, data, read_responder, write_responder)
    IN  /\ ~panicked
        /\ obs' = r.obs
        /\ read_responder' = r.read_responder
        /\ write_responder' = r.write_responder
        /\ panicked' = r.panic
        /\ UNCHANGED <<index, state, data_index, data>>
        /\ last' = Call("observe", <<>>, IF last.op = "observe" THEN 2 ELSE 1)
        /\ doneCount' = Counted(ResponderOf(r.obs))
        /\ UNCHANGED <<rrArg, rwArg, wval, nextResp, upl, acks>>
        /\ UNCHANGED codecVars
        /\ UNCHANGED frameVars
        /\ UNCHANGED loopVars

----------------------------------------------------------------------------
(* The calls with their inputs drawn from a set *)

\* read with a fresh responder
ReadAny(IX) == \E ix \in IX : nextResp <= MaxResp /\ Read(ix, nextResp)

\* write with a fresh responder
WriteAny(IX, VS) == \E ix \in IX, v \in VS : nextResp <= MaxResp /\ Write(ix, v, nextResp)

\* transit; segments stop once the upload cursor would pass the bound cap
TransitAny(RS, cap) ==
    \E resp \in RS :
        /\ (state.tag = "UploadingMultiples" /\ resp[1] = "UploadMultiples")
               => data_index + resp[4] <= cap
        /\ TransitCall(resp)
        /\ UNCHANGED acks

\* indices the caller arms transfers with, and indices the server answers with
ArmIx == {Index(4096, 1)}
RespIx == {Index(4096, 1), Index(4097, 1)}

ExpData == <<170, 187, 204, 221>>
SegData == <<1, 2, 3, 4, 5, 6, 7>>

\* ClientCtx::new: nothing sent, nothing published, no event handled yet
NoEvent == [kind |-> "none", cmd |-> "", node |-> 0, route |-> "", unknown |-> FALSE,
            cs |-> 0, calls |-> <<>>, accepted |-> FALSE]

InitLoop ==
    /\ running = TRUE
    /\ sent = <<>>
    /\ dictSet = <<>>
    /\ delivered = <<>>
    /\ ev = NoEvent
    /\ outstanding = 0
    /\ bind = [node |-> 0, from |-> 0]
    /\ srv = [obj |-> <<>>, pos |-> 0, toggle |-> FALSE, req |-> None, resp |-> None]

\* CANFrameMachine::default(), with CANFrame::default() inside
CANFrameMachineDefault ==
    [state |-> "Init",
     can_frame |-> [can_cobid |-> 0, can_len |-> 0, can_data |-> <<0, 0, 0, 0, 0, 0, 0, 0>>],
     len |-> 0,
     index |-> 0]

InitFrames ==
    /\ fcode = <<"none">>
    /\ fcob = None
    /\ fdec = <<"none">>
    /\ parser = CANFrameMachineDefault
    /\ rawFrame = CANFrameMachineDefault.can_frame
    /\ rawIn = <<>>
    /\ rawFed = 0
    /\ rawObs = <<>>
    /\ rawOut = <<>>

Init == InitMachine /\ InitHist /\ InitCodec /\ InitLoop /\ InitFrames

----------------------------------------------------------------------------
(* Spec: every sequence of read, write, transit, observe and initial *)

\* values handed to write, by their serialized bytes (IntoBuf)
GenValues ==
    { <<4, 3, 2, 1>>,
      <<17, 18>>,
      <<41, 42, 43, 44, 45, 46, 47, 48, 49, 50, 51, 52, 53, 54>> }

GenResponses ==
    {UploadSingleSegment(ix, 4, ExpData) : ix \in RespIx}
    \cup {UploadInitMultiples(ix, 10) : ix \in RespIx}
    \cup {UploadMultiples(t, e, 7, SegData) : t \in BOOLEAN, e \in BOOLEAN}
    \cup {DownloadInitAck(ix) : ix \in RespIx}
    \cup {DownloadSegmentAck(t) : t \in BOOLEAN}

DoRead == ReadAny(ArmIx)
DoWrite == WriteAny(ArmIx, GenValues)
DoTransit == TransitAny(GenResponses, MaxUploadBytes)
DoObserve == Observe
DoInitial == Initial

Next == DoRead \/ DoWrite \/ DoTransit \/ DoObserve \/ DoInitial

Spec == Init /\ [][Next]_vars

----------------------------------------------------------------------------
(* SpecUp: uploads, with every expedited count and segments of several lengths *)

SegLens == {0, 3, 7}

UpResponses ==
    {UploadSingleSegment(ix, n, ExpData) : ix \in RespIx, n \in 0 .. 4}
    \cup {UploadInitMultiples(ix, 10) : ix \in RespIx}
    \cup {UploadMultiples(t, e, n, SegData) : t \in BOOLEAN, e \in BOOLEAN, n \in SegLens}
    \cup {DownloadInitAck(ix) : ix \in ArmIx}
    \cup {DownloadSegmentAck(FALSE)}

UpRead == nextResp <= MaxUpReads /\ ReadAny(ArmIx)
UpTransit == TransitAny(UpResponses, MaxUploadBytes)
UpObserve == Observe
UpInitial == Initial

NextUp == UpRead \/ UpTransit \/ UpObserve \/ UpInitial

SpecUp == Init /\ [][NextUp]_vars

----------------------------------------------------------------------------
(* SpecLong: one segmented upload of a long object, up to and past the capacity *)

\* byte p of the object the server uploads
ObjByte(p) == (p % 251) + 1

\* the 7 payload bytes of the segment that starts at byte p of the object
ObjSegment(p) == [k \in 1 .. 7 |-> ObjByte(p + k - 1)]

LongRead == state = Idle /\ ReadAny(ArmIx)

\* the server answers the read with a segmented initiate response
LongInit ==
    /\ state = InitUpload
    /\ TransitCall(UploadInitMultiples(rrArg[1], 0))
    /\ UNCHANGED acks

\* the server sends the next segment of its object, with its own toggle and cursor
LongSegment ==
    \E n \in SegLens, e \in BOOLEAN :
        /\ upl.on /\ ~upl.fin
        /\ TransitCall(UploadMultiples(upl.toggle, e, n, ObjSegment(Len(upl.bytes))))
        /\ UNCHANGED acks

LongObserve == Observe

\* a value that fills the buffer: the serializer returns DATA_LEN
LongValue == [k \in 1 .. DATA_LEN |-> ObjByte(k)]

\* the object has arrived with the cursor within three segments of the capacity, and
\* a value that fills the buffer is written
LongWrite ==
    /\ state.tag = "MultiplesUploaded"
    /\ data_index >= DATA_LEN - 21
    /\ WriteAny(ArmIx, {LongValue})

\* the server acknowledges the download initiate request
LongAckInit ==
    /\ state.tag = "InitMultipleDownload"
    /\ TransitCall(DownloadInitAck(index))
    /\ UNCHANGED acks

\* the server acknowledges a segment with the toggle the machine expects
LongAckSegment ==
    /\ state.tag = "DownloadingSegments"
    /\ TransitCall(DownloadSegmentAck(state.toggle))
    /\ UNCHANGED acks

NextLong ==
    \/ LongRead \/ LongInit \/ LongSegment \/ LongObserve
    \/ LongWrite \/ LongAckInit \/ LongAckSegment

SpecLong == Init /\ [][NextLong]_vars

----------------------------------------------------------------------------
(* SpecDown: one segmented download on a fresh machine, acknowledged by the server *)

\* the value of n bytes that write serializes
DownValue(n) == [k \in 1 .. n |-> 100 + k]

DownWrite ==
    \E ix \in RespIx, n \in 5 .. MaxWriteLen :
        /\ last.op = "new"
        /\ Write(ix, DownValue(n), nextResp)

DownObserve == Observe

\* the server acknowledges the request it was sent, with that request's index or toggle
DownAck ==
    /\ last.op = "observe"
    /\ obs[1] = "Output"
    /\ \/ /\ obs[2][1] = "InitMultipleDownload"
          /\ TransitCall(DownloadInitAck(obs[2][2]))
       \/ /\ obs[2][1] = "DownloadSegment"
          /\ TransitCall(DownloadSegmentAck(obs[2][2]))
    /\ acks' = acks + 1

NextDown == DownWrite \/ DownObserve \/ DownAck

SpecDown == Init /\ [][NextDown]_vars

----------------------------------------------------------------------------
(* SpecAck: segmented downloads driven by acknowledgements alone, on a fresh machine *)
(* or after an expedited upload that left the cursor at 4                          *)

AckRead == last.op = "new" /\ ReadAny(ArmIx)

\* the server answers the read with four bytes
AckUpload ==
    /\ state.tag = "InitUpload"
    /\ TransitCall(UploadSingleSegment(index, 4, ExpData))
    /\ UNCHANGED acks

AckWrite ==
    \E ix \in ArmIx, n \in 5 .. MaxWriteLen :
        /\ state.tag \in {"Idle", "SingleSegmentUploaded"}
        /\ nextResp <= MaxResp
        /\ Write(ix, DownValue(n), nextResp)

\* the server acknowledges the initiate request, with any index
AckInit ==
    \E ix \in RespIx :
        /\ state.tag = "InitMultipleDownload"
        /\ TransitCall(DownloadInitAck(ix))
        /\ acks' = acks + 1

\* the server acknowledges a segment, with any toggle
AckSegment ==
    \E t \in BOOLEAN :
        /\ state.tag = "DownloadingSegments"
        /\ TransitCall(DownloadSegmentAck(t))
        /\ acks' = acks + 1

NextAck == AckRead \/ AckUpload \/ AckWrite \/ AckInit \/ AckSegment

SpecAck == Init /\ [][NextAck]_vars

----------------------------------------------------------------------------
(* Bytes and bit operations of the codec *)

RECURSIVE BitAnd(_, _)
\* a & b
BitAnd(a, b) ==
    IF a = 0 \/ b = 0 THEN 0
    ELSE (IF a % 2 = 1 /\ b % 2 = 1 THEN 1 ELSE 0) + 2 * BitAnd(a \div 2, b \div 2)

RECURSIVE BitOr(_, _)
\* a | b
BitOr(a, b) ==
    IF a = 0 THEN b
    ELSE IF b = 0 THEN a
    ELSE (IF a % 2 = 1 \/ b % 2 = 1 THEN 1 ELSE 0) + 2 * BitOr(a \div 2, b \div 2)

RECURSIVE Pow2(_)
Pow2(k) == IF k = 0 THEN 1 ELSE 2 * Pow2(k - 1)

\* a << k on a u8: the bits shifted out are dropped
Shl8(a, k) == (a * Pow2(k)) % 256

\* a >> k
Shr(a, k) == a \div Pow2(k)

\* b as u8, for a bool
BoolU8(b) == IF b THEN 1 ELSE 0

\* u32::to_le_bytes; the u32 values of the model stay below 2^31
ToLeBytes(x) ==
    << x % 256, (x \div 256) % 256, (x \div 65536) % 256, (x \div 16777216) % 256 >>

\* u32::from_le_bytes
FromLeBytes(b) == b[1] + 256 * b[2] + 65536 * b[3] + 16777216 * b[4]

\* [0; 8]
ZeroFrame == <<0, 0, 0, 0, 0, 0, 0, 0>>

\* frame[lo .. lo + Len(src)].copy_from_slice(src), positions counted from 0
FramePut(frame, lo, src) ==
    [k \in 1 .. Len(frame) |->
        IF k - 1 >= lo /\ k - 1 < lo + Len(src) THEN src[k - lo] ELSE frame[k]]

\* &frame[lo..hi], positions counted from 0
FrameGet(frame, lo, hi) == [k \in 1 .. (hi - lo) |-> frame[lo + k]]

----------------------------------------------------------------------------
(* Index::write_to_slice, Index::read_from_slice *)

\* (index & 0xFF), ((index >> 8) & 0xFF), sub
IndexWriteToSlice(ix) ==
    << BitAnd(ix[1], 255), BitAnd(Shr(ix[1], 8), 255), ix[2] >>

\* variant: the index is read big-endian
IndexReadFromSlice_BigEndian(buf) == Index(BitOr(buf[1] * 256, buf[2]), buf[3])

\* ((buf[1] as u16) << 8) | (buf[0] as u16), then buf[2]
IndexReadFromSlice(buf) == Index(BitOr(buf[2] * 256, buf[1]), buf[3])

----------------------------------------------------------------------------
(* AbortCode: the discriminants of the enum and the arms of From<u32> *)

AbortCodeEnum ==
    << <<"ToggleBitNotAlternated", 84082688>>,
       <<"SDOProtocolTimedOut", 84148224>>,
       <<"ClientServerCommandSpecifierNotValidOrUnknown", 84148225>>,
       <<"InvalidBlockSize", 84148226>>,
       <<"InvalidSequenceNumber", 84148227>>,
       <<"CrcError", 84148228>>,
       <<"OutOfMemory", 84148229>>,
       <<"UnsupportedAccessToAnObject", 100728832>>,
       <<"AttemptToReadAWriteOnlyObject", 100728833>>,
       <<"AttemptToWriteAReadOnlyObject", 100728834>>,
       <<"ObjectDoesNotExistInTheObjectDictionary", 100794368>>,
       <<"ObjectCannotBeMappedToThePDO", 100925505>>,
       <<"TheNumberAndLengthOfTheObjectsToBeMappedWouldExceedPdoLength", 100925506>>,
       <<"GeneralParameterIncompatibilityReason", 100925507>>,
       <<"GeneralInternalIncompatibilityInTheDevice", 100925511>>,
       <<"AccessFailedDueToAnHardwareError", 101056512>>,
       <<"DataTypeDoesNotMatchLengthOfServiceParameterDoesNotMatch", 101122064>>,
       <<"DataTypeDoesNotMatchLengthOfServiceParameterTooHigh", 101122066>>,
       <<"DataTypeDoesNotMatchLengthOfServiceParameterTooLow", 101122067>>,
       <<"SubIndexDoesNotExist", 101253137>>,
       <<"InvalidValueForParameterDownloadOnly", 101253168>>,
       <<"ValueOfParameterWrittenTooHighDownloadOnly", 101253169>>,
       <<"ValueOfParameterWrittenTooLowDownloadOnly", 101253170>>,
       <<"MaximumValueIsLessThanMinimumValue", 101253174>>,
       <<"ResourceNotAvailableSdoConnection", 101318691>>,
       <<"GeneralError", 134217728>>,
       <<"DataCannotBeTransferredOrStoredToTheApplication", 134217760>>,
       <<"DataCannotBeTransferredOrStoredToTheApplicationBecauseOfLocalControl", 134217761>>,
       <<"DataCannotBeTransferredOrStoredToTheApplicationBecauseOfThePresentDeviceState", 134217762>>,
       <<"ObjectDictionaryDynamicGenerationFailsOrNoObjectDictionaryIsPresent", 134217763>>,
       <<"NoDataAvailable", 134217764>> >>

AbortCodeMatch ==
    << <<84082688, "ToggleBitNotAlternated">>,
       <<84148224, "SDOProtocolTimedOut">>,
       <<84148225, "ClientServerCommandSpecifierNotValidOrUnknown">>,
       <<84148226, "InvalidBlockSize">>,
       <<84148227, "InvalidSequenceNumber">>,
       <<84148228, "CrcError">>,
       <<84148229, "OutOfMemory">>,
       <<100728832, "UnsupportedAccessToAnObject">>,
       <<100728833, "AttemptToReadAWriteOnlyObject">>,
       <<100728834, "AttemptToWriteAReadOnlyObject">>,
       <<100794368, "ObjectDoesNotExistInTheObjectDictionary">>,
       <<100925505, "ObjectCannotBeMappedToThePDO">>,
       <<100925506, "TheNumberAndLengthOfTheObjectsToBeMappedWouldExceedPdoLength">>,
       <<100925507, "GeneralParameterIncompatibilityReason">>,
       <<100925511, "GeneralInternalIncompatibilityInTheDevice">>,
       <<101056512, "AccessFailedDueToAnHardwareError">>,
       <<101122064, "DataTypeDoesNotMatchLengthOfServiceParameterDoesNotMatch">>,
       <<101122066, "DataTypeDoesNotMatchLengthOfServiceParameterTooHigh">>,
       <<101122067, "DataTypeDoesNotMatchLengthOfServiceParameterTooLow">>,
       <<101253137, "SubIndexDoesNotExist">>,
       <<101253168, "InvalidValueForParameterDownloadOnly">>,
       <<101253169, "ValueOfParameterWrittenTooHighDownloadOnly">>,
       <<101253170, "ValueOfParameterWrittenTooLowDownloadOnly">>,
       <<101253174, "MaximumValueIsLessThanMinimumValue">>,
       <<101318691, "ResourceNotAvailableSdoConnection">>,
       <<134217728, "GeneralError">>,
       <<134217760, "DataCannotBeTransferredOrStoredToTheApplication">>,
       <<134217761, "DataCannotBeTransferredOrStoredToTheApplicationBecauseOfLocalControl">>,
       <<134217762, "DataCannotBeTransferredOrStoredToTheApplicationBecauseOfThePresentDeviceState">>,
       <<134217763, "ObjectDictionaryDynamicGenerationFailsOrNoObjectDictionaryIsPresent">>,
       <<134217764, "NoDataAvailable">> >>

AbortCodes == {AbortCodeEnum[k][1] : k \in 1 .. Len(AbortCodeEnum)}

\* code as u32
AbortCodeAsU32(code) ==
    LET k == CHOOSE j \in 1 .. Len(AbortCodeEnum) : AbortCodeEnum[j][1] = code
    IN  AbortCodeEnum[k][2]

\* AbortCode::from(value), unknown values give GeneralError
AbortCodeFrom(value) ==
    IF \E j \in 1 .. Len(AbortCodeMatch) : AbortCodeMatch[j][1] = value
    THEN LET k == CHOOSE j \in 1 .. Len(AbortCodeMatch) : AbortCodeMatch[j][1] = value
         IN  AbortCodeMatch[k][2]
    ELSE "GeneralError"

----------------------------------------------------------------------------
(* ToggleBit and ClientCommandSpecifier to and from the command byte *)

\* Into<u8> for ToggleBit
ToggleBitInto(t) == Shl8(BoolU8(t), 4)

\* From<u8> for ToggleBit
ToggleBitFrom(x) == ToggleBit(BitAnd(x, 16) > 0)

\* Into<u8> for ClientCommandSpecifier
ClientCommandSpecifierInto(cs) ==
    CASE cs = "InitDownload" -> Shl8(1, 5)
      [] cs = "DownloadSegment" -> Shl8(0, 5)
      [] cs = "InitUpload" -> Shl8(2, 5)
      [] cs = "UploadSegment" -> Shl8(3, 5)
      [] cs = "AbortTransfer" -> Shl8(4, 5)

\* TryFrom<u8> for ClientCommandSpecifier
ClientCommandSpecifierTryFrom(x) ==
    LET cs == BitAnd(x, 224)
    IN  CASE cs = 0 -> <<"Ok", "DownloadSegment">>
          [] cs = 32 -> <<"Ok", "InitDownload">>
          [] cs = 64 -> <<"Ok", "InitUpload">>
          [] cs = 96 -> <<"Ok", "UploadSegment">>
          [] cs = 128 -> <<"Ok", "AbortTransfer">>
          [] OTHER -> <<"Err", <<"UnknownClientCommandSpecifier", Shr(cs, 5)>>>>

----------------------------------------------------------------------------
(* Into<[u8; 8]> for ClientRequest *)

\* ClientRequest::InitUpload(ix)
EncodeInitUpload(ix) ==
    FramePut(FramePut(ZeroFrame, 0, <<ClientCommandSpecifierInto("InitUpload")>>),
             1, IndexWriteToSlice(ix))

\* ClientRequest::UploadSegment(t)
EncodeUploadSegment(t) ==
    FramePut(ZeroFrame, 0,
             <<BitOr(ClientCommandSpecifierInto("UploadSegment"), ToggleBitInto(t))>>)

\* ClientRequest::InitSingleSegmentDownload(ix, len, data); panics when len > 4
EncodeInitSingleSegmentDownload(ix, len, d) ==
    IF len > 4 THEN <<"Panic">>
    ELSE LET b0 == ClientCommandSpecifierInto("InitDownload")
             b1 == BitOr(b0, Shl8(4 - len, 2))
             b2 == BitOr(b1, Shl8(1, 1))
             b3 == BitOr(b2, Shl8(1, 0))
         IN  FramePut(FramePut(FramePut(ZeroFrame, 0, <<b3>>), 1, IndexWriteToSlice(ix)),
                      4, Take(d, 4))

\* variant: the s bit is set whatever the length
EncodeInitMultipleDownload_AlwaysSized(ix, len) ==
    LET b0 == ClientCommandSpecifierInto("InitDownload")
        b1 == BitOr(b0, Shl8(1, 0))
    IN  FramePut(FramePut(FramePut(ZeroFrame, 0, <<b1>>), 1, IndexWriteToSlice(ix)),
                 4, ToLeBytes(len))

\* ClientRequest::InitMultipleDownload(ix, len)
EncodeInitMultipleDownload(ix, len) ==
    LET b0 == ClientCommandSpecifierInto("InitDownload")
        b1 == IF len > 0 THEN BitOr(b0, Shl8(1, 0)) ELSE b0
    IN  FramePut(FramePut(FramePut(ZeroFrame, 0, <<b1>>), 1, IndexWriteToSlice(ix)),
                 4, ToLeBytes(len))

\* ClientRequest::DownloadSegment(t, c, n, data); panics when n > 7
EncodeDownloadSegment(t, c, n, d) ==
    IF n > 7 THEN <<"Panic">>
    ELSE LET code == ClientCommandSpecifierInto("DownloadSegment")
             b0 == BitOr(BitOr(BitOr(code, ToggleBitInto(t)), Shl8(7 - n, 1)), BoolU8(c))
         IN  FramePut(FramePut(ZeroFrame, 0, <<b0>>), 1, Take(d, 7))

\* ClientRequest::AbortTransfer(index, code)
EncodeAbortTransfer(ix, code) ==
    FramePut(FramePut(FramePut(ZeroFrame, 0, <<ClientCommandSpecifierInto("AbortTransfer")>>),
                      1, IndexWriteToSlice(ix)),
             4, ToLeBytes(AbortCodeAsU32(code)))

\* match self
EncodeClientRequest(req) ==
    CASE req[1] = "InitUpload" -> EncodeInitUpload(req[2])
      [] req[1] = "UploadSegment" -> EncodeUploadSegment(req[2])
      [] req[1] = "InitSingleSegmentDownload" ->
            EncodeInitSingleSegmentDownload(req[2], req[3], req[4])
      [] req[1] = "InitMultipleDownload" -> EncodeInitMultipleDownload(req[2], req[3])
      [] req[1] = "DownloadSegment" -> EncodeDownloadSegment(req[2], req[3], req[4], req[5])
      [] req[1] = "AbortTransfer" -> EncodeAbortTransfer(req[2], req[3])

----------------------------------------------------------------------------
(* TryFrom<[u8; 8]> for ClientRequest *)

\* ClientCommandSpecifier::InitDownload, by the e and s bits of the command byte
DecodeInitDownload(req) ==
    LET ix == IndexReadFromSlice(FrameGet(req, 1, 4))
        is_expedited == BitAnd(Shr(req[1], 1), 1) > 0
        is_sized == BitAnd(Shr(req[1], 0), 1) > 0
    IN  CASE ~is_expedited /\ ~is_sized -> <<"Ok", ReqInitMultipleDownload(ix, 0)>>
          [] ~is_expedited /\ is_sized ->
                <<"Ok", ReqInitMultipleDownload(ix, FromLeBytes(FrameGet(req, 4, 8)))>>
          [] is_expedited /\ is_sized ->
                <<"Ok", ReqInitSingleSegmentDownload(ix, 4 - BitAnd(Shr(req[1], 2), 3),
                                                      FrameGet(req, 4, 8))>>
          [] is_expedited /\ ~is_sized ->
                \* data[..3].copy_from_slice(&req[4..8]): 3 bytes from a 4-byte source
                <<"Panic">>

\* ClientCommandSpecifier::DownloadSegment
DecodeDownloadSegment(req) ==
    <<"Ok", ReqDownloadSegment(ToggleBitFrom(req[1]), BitAnd(req[1], 1) > 0,
                               7 - BitAnd(Shr(req[1], 1), 7), FrameGet(req, 1, 8))>>

\* ClientCommandSpecifier::AbortTransfer
DecodeAbortTransfer(req) ==
    <<"Ok", ReqAbortTransfer(IndexReadFromSlice(FrameGet(req, 1, 4)),
                             AbortCodeFrom(FromLeBytes(FrameGet(req, 4, 8))))>>

\* ClientRequest::try_from(req)
DecodeClientRequest(req) ==
    LET code == ClientCommandSpecifierTryFrom(req[1])
    IN  IF code[1] = "Err" THEN code
        ELSE CASE code[2] = "InitUpload" ->
                    <<"Ok", ReqInitUpload(IndexReadFromSlice(FrameGet(req, 1, 4)))>>
               [] code[2] = "UploadSegment" -> <<"Ok", ReqUploadSegment(ToggleBitFrom(req[1]))>>
               [] code[2] = "InitDownload" -> DecodeInitDownload(req)
               [] code[2] = "DownloadSegment" -> DecodeDownloadSegment(req)
               [] code[2] = "AbortTransfer" -> DecodeAbortTransfer(req)

----------------------------------------------------------------------------
(* TransferType and ServerCommandSpecifier to and from the command byte *)

\* TransferType
Normal == <<"Normal">>
NormalUnspecifiedSize == <<"NormalUnspecifiedSize">>
ExpeditedWithSize(n) == <<"ExpeditedWithSize", n>>

\* Into<u8> for TransferType
TransferTypeInto(ty) ==
    CASE ty[1] = "Normal" -> 1
      [] ty[1] = "ExpeditedWithSize" -> BitOr(3, Shl8(4 - ty[2], 2))
      [] ty[1] = "NormalUnspecifiedSize" -> 0

\* TryFrom<u8> for TransferType: the e = 1, s = 0 pair is ExpeditedWithSize(0)
TransferTypeTryFrom(x) ==
    LET code == BitAnd(x, 3)
    IN  CASE code = 1 -> <<"Ok", Normal>>
          [] code = 2 -> <<"Ok", ExpeditedWithSize(0)>>
          [] code = 3 -> <<"Ok", ExpeditedWithSize(4 - Shr(BitAnd(x, 12), 2))>>
          [] code = 0 -> <<"Ok", NormalUnspecifiedSize>>
          [] OTHER -> <<"Err", <<"UnsupportedTransferType", code>>>>

\* Into<u8> for ServerCommandSpecifier
ServerCommandSpecifierInto(cs) ==
    CASE cs = "InitDownloadAck" -> Shl8(3, 5)
      [] cs = "DownloadSegmentAck" -> Shl8(1, 5)
      [] cs = "InitUpload" -> Shl8(2, 5)
      [] cs = "UploadSegment" -> Shl8(0, 5)

\* variant: every command specifier is accepted, the unknown ones as UploadSegment
ServerCommandSpecifierTryFrom_AcceptAll(x) ==
    LET cs == BitAnd(x, 224)
    IN  CASE cs = 32 -> <<"Ok", "DownloadSegmentAck">>
          [] cs = 64 -> <<"Ok", "InitUpload">>
          [] cs = 96 -> <<"Ok", "InitDownloadAck">>
          [] OTHER -> <<"Ok", "UploadSegment">>

\* TryFrom<u8> for ServerCommandSpecifier
ServerCommandSpecifierTryFrom(x) ==
    LET cs == BitAnd(x, 224)
    IN  CASE cs = 0 -> <<"Ok", "UploadSegment">>
          [] cs = 32 -> <<"Ok", "DownloadSegmentAck">>
          [] cs = 64 -> <<"Ok", "InitUpload">>
          [] cs = 96 -> <<"Ok", "InitDownloadAck">>
          [] OTHER -> <<"Err", <<"UnknownServerCommandSpecifier", Shr(cs, 5)>>>>

----------------------------------------------------------------------------
(* Into<[u8; 8]> for ServerResponse *)

\* ServerResponse::UploadSingleSegment(ix, len, data); panics when len > 4,
\* and the transfer type is built from len & 0x3
EncodeUploadSingleSegment(ix, len, d) ==
    IF len > 4 THEN <<"Panic">>
    ELSE LET cs == ServerCommandSpecifierInto("InitUpload")
             ty == TransferTypeInto(ExpeditedWithSize(BitAnd(len, 3)))
         IN  FramePut(FramePut(FramePut(ZeroFrame, 0, <<BitOr(cs, ty)>>),
                               1, IndexWriteToSlice(ix)),
                      4, Take(d, 4))

\* ServerResponse::UploadInitMultiples(ix, len)
EncodeUploadInitMultiples(ix, len) ==
    LET cs == ServerCommandSpecifierInto("InitUpload")
        ty == IF len = 0 THEN TransferTypeInto(NormalUnspecifiedSize)
              ELSE TransferTypeInto(Normal)
    IN  FramePut(FramePut(FramePut(ZeroFrame, 0, <<BitOr(cs, ty)>>),
                          1, IndexWriteToSlice(ix)),
                 4, ToLeBytes(len))

\* ServerResponse::UploadMultiples(tb, is_end, len, data); panics when len > 7
EncodeUploadMultiples(tb, is_end, len, d) ==
    IF len > 7 THEN <<"Panic">>
    ELSE LET cs == ServerCommandSpecifierInto("UploadSegment")
             code == BitOr(BitOr(BitOr(cs, Shl8(7 - len, 1)), BoolU8(is_end)),
                           ToggleBitInto(tb))
         IN  FramePut(FramePut(ZeroFrame, 0, <<code>>), 1, Take(d, 7))

\* ServerResponse::DownloadInitAck(ix)
EncodeDownloadInitAck(ix) ==
    FramePut(FramePut(ZeroFrame, 0, <<ServerCommandSpecifierInto("InitDownloadAck")>>),
             1, IndexWriteToSlice(ix))

\* ServerResponse::DownloadSegmentAck(toggle_bit)
EncodeDownloadSegmentAck(t) ==
    FramePut(ZeroFrame, 0,
             <<BitOr(ServerCommandSpecifierInto("DownloadSegmentAck"), ToggleBitInto(t))>>)

\* match self
EncodeServerResponse(resp) ==
    CASE resp[1] = "UploadSingleSegment" ->
            EncodeUploadSingleSegment(resp[2], resp[3], resp[4])
      [] resp[1] = "UploadInitMultiples" -> EncodeUploadInitMultiples(resp[2], resp[3])
      [] resp[1] = "UploadMultiples" ->
            EncodeUploadMultiples(resp[2], resp[3], resp[4], resp[5])
      [] resp[1] = "DownloadInitAck" -> EncodeDownloadInitAck(resp[2])
      [] resp[1] = "DownloadSegmentAck" -> EncodeDownloadSegmentAck(resp[2])

----------------------------------------------------------------------------
(* TryFrom<[u8; 8]> for ServerResponse *)

\* ServerCommandSpecifier::InitUpload, by the transfer type of the command byte
DecodeInitUploadResponse(req) ==
    LET ix == IndexReadFromSlice(FrameGet(req, 1, 4))
        ty == TransferTypeTryFrom(req[1])
    IN  IF ty[1] = "Err" THEN ty
        ELSE CASE ty[2][1] = "Normal" ->
                    <<"Ok", UploadInitMultiples(ix, FromLeBytes(FrameGet(req, 4, 8)))>>
               [] ty[2][1] = "ExpeditedWithSize" ->
                    <<"Ok", UploadSingleSegment(ix, ty[2][2], FrameGet(req, 4, 8))>>
               [] ty[2][1] = "NormalUnspecifiedSize" ->
                    <<"Ok", UploadInitMultiples(ix, 0)>>

\* variant: the length is taken from the four bits above the c bit as it stands
DecodeUploadSegmentResponse_RawLength(req) ==
    <<"Ok", UploadMultiples(ToggleBitFrom(req[1]), BitAnd(req[1], 1) = 1,
                            BitAnd(Shr(req[1], 1), 15), FrameGet(req, 1, 8))>>

\* ServerCommandSpecifier::UploadSegment
DecodeUploadSegmentResponse(req) ==
    <<"Ok", UploadMultiples(ToggleBitFrom(req[1]), BitAnd(req[1], 1) = 1,
                            7 - BitAnd(Shr(req[1], 1), 7), FrameGet(req, 1, 8))>>

\* ServerResponse::try_from(req)
DecodeServerResponse(req) ==
    LET code == ServerCommandSpecifierTryFrom(req[1])
    IN  IF code[1] = "Err" THEN code
        ELSE CASE code[2] = "InitUpload" -> DecodeInitUploadResponse(req)
               [] code[2] = "UploadSegment" -> DecodeUploadSegmentResponse(req)
               [] code[2] = "InitDownloadAck" ->
                    <<"Ok", DownloadInitAck(IndexReadFromSlice(FrameGet(req, 1, 4)))>>
               [] code[2] = "DownloadSegmentAck" ->
                    <<"Ok", DownloadSegmentAck(ToggleBitFrom(req[1]))>>

----------------------------------------------------------------------------
(* SpecCodec: a client request is encoded to 8 bytes and those bytes decoded *)

CodecIx == {Index(0, 0), Index(65535, 255), Index(4660, 86), Index(4096, 1)}

CodecData4 == {<<1, 2, 3, 4>>, <<255, 0, 128, 7>>}

CodecData7 == {<<1, 2, 3, 4, 5, 6, 7>>, <<255, 0, 128, 7, 0, 0, 200>>}

CodecSizes == {0, 1, 10, 255, 256, 16909060, 2147483647}

ClientRequests ==
    {ReqInitUpload(ix) : ix \in CodecIx}
    \cup {ReqUploadSegment(t) : t \in BOOLEAN}
    \cup {ReqInitSingleSegmentDownload(ix, n, d) : ix \in CodecIx, n \in 1 .. 4, d \in CodecData4}
    \cup {ReqInitMultipleDownload(ix, n) : ix \in CodecIx, n \in CodecSizes}
    \cup {ReqDownloadSegment(t, c, n, d) :
            t \in BOOLEAN, c \in BOOLEAN, n \in 0 .. 7, d \in CodecData7}
    \cup {ReqAbortTransfer(ix, code) : ix \in CodecIx, code \in AbortCodes}

\* the requests the encoder accepts: a single segment download may carry no byte
ClientRequestsInRange ==
    ClientRequests
    \cup {ReqInitSingleSegmentDownload(ix, 0, d) : ix \in CodecIx, d \in CodecData4}

ServerResponses ==
    {UploadSingleSegment(ix, n, d) : ix \in CodecIx, n \in 0 .. 4, d \in CodecData4}
    \cup {UploadInitMultiples(ix, n) : ix \in CodecIx, n \in CodecSizes}
    \cup {UploadMultiples(t, c, n, d) :
            t \in BOOLEAN, c \in BOOLEAN, n \in 0 .. 7, d \in CodecData7}
    \cup {DownloadInitAck(ix) : ix \in CodecIx}
    \cup {DownloadSegmentAck(t) : t \in BOOLEAN}

\* payloads of frames taken from the bus: any command byte, two bodies
WireBodies == {<<0, 16, 1, 1, 2, 3, 4>>, <<255, 255, 255, 0, 0, 0, 0>>}

WireFrames == {<<b>> \o body : b \in Byte, body \in WireBodies}

\* a marker for bytes that were received, not encoded here
FromWire == <<"wire">>

InitCodecRun ==
    /\ InitMachine /\ InitHist /\ InitLoop /\ InitFrames
    /\ \/ /\ creq \in ClientRequestsInRange
          /\ cbuf = <<>>
          /\ sresp = <<"none">>
          /\ sbuf = <<>>
       \/ /\ creq = <<"none">>
          /\ cbuf = <<>>
          /\ sresp \in ServerResponses
          /\ sbuf = <<>>
       \/ /\ creq = <<"none">>
          /\ cbuf = <<>>
          /\ sresp = FromWire
          /\ sbuf \in WireFrames
       \/ /\ creq = FromWire
          /\ cbuf \in WireFrames
          /\ sresp = <<"none">>
          /\ sbuf = <<>>
    /\ cdec = <<"none">>
    /\ sdec = <<"none">>

\* let buf: [u8; 8] = req.into()
CodecEncode ==
    /\ creq # <<"none">>
    /\ cbuf = <<>>
    /\ cbuf' = EncodeClientRequest(creq)
    /\ UNCHANGED <<creq, cdec, sresp, sbuf, sdec>>
    /\ UNCHANGED machineVars
    /\ UNCHANGED histVars
    /\ UNCHANGED loopVars
    /\ UNCHANGED frameVars

\* ClientRequest::try_from(buf)
CodecDecode ==
    /\ Len(cbuf) = 8
    /\ cdec = <<"none">>
    /\ cdec' = DecodeClientRequest(cbuf)
    /\ UNCHANGED <<creq, cbuf, sresp, sbuf, sdec>>
    /\ UNCHANGED machineVars
    /\ UNCHANGED histVars
    /\ UNCHANGED loopVars
    /\ UNCHANGED frameVars

\* let buf: [u8; 8] = resp.into()
ServerEncode ==
    /\ sresp # <<"none">>
    /\ sresp # FromWire
    /\ sbuf = <<>>
    /\ sbuf' = EncodeServerResponse(sresp)
    /\ UNCHANGED <<creq, cbuf, cdec, sresp, sdec>>
    /\ UNCHANGED machineVars
    /\ UNCHANGED histVars
    /\ UNCHANGED loopVars
    /\ UNCHANGED frameVars

\* ServerResponse::try_from(buf)
ServerDecode ==
    /\ Len(sbuf) = 8
    /\ sdec = <<"none">>
    /\ sdec' = DecodeServerResponse(sbuf)
    /\ UNCHANGED <<creq, cbuf, cdec, sresp, sbuf>>
    /\ UNCHANGED machineVars
    /\ UNCHANGED histVars
    /\ UNCHANGED loopVars
    /\ UNCHANGED frameVars

NextCodec == CodecEncode \/ CodecDecode \/ ServerEncode \/ ServerDecode

SpecCodec == InitCodecRun /\ [][NextCodec]_vars

----------------------------------------------------------------------------
(* SpecFeed: the machine driven by responses decoded from received payloads, as
   handle_sdo_rx feeds them: every command byte over a payload of zeros, for
   transfers of the object at index 0 *)

FeedIx == {Index(0, 0)}

FeedFrames == {<<b, 0, 0, 0, 0, 0, 0, 0>> : b \in Byte}

\* number of bytes from the start of the buffer up to which every frame is fed
MaxFeedBytes == 7

\* number of bytes before the end of the buffer from which every frame is fed again
MaxFeedTail == 9

\* every frame is fed while the cursor is within the first MaxFeedBytes bytes of the
\* buffer; beyond them only an upload in progress is fed, with upload segments: with
\* every segment within the last MaxFeedTail bytes of the buffer, and before them
\* with full segments without the last flag on the cursors that are multiples of 7
FeedCapOk(f) ==
    \/ data_index <= MaxFeedBytes
    \/ /\ state.tag = "UploadingMultiples"
       /\ f[1] \div 32 = 0
       /\ \/ data_index >= DATA_LEN - MaxFeedTail
          \/ f[1] % 16 = 0 /\ data_index % 7 = 0

\* number of read and write calls in one run
MaxFeedCmds == 1

\* the host makes its calls before the cursor has passed MaxFeedBytes
FeedCmdOk == nextResp <= MaxFeedCmds /\ data_index <= MaxFeedBytes

FeedRead == \E ix \in FeedIx : FeedCmdOk /\ Read(ix, nextResp)

FeedWrite ==
    \E ix \in FeedIx, v \in {w \in GenValues : Len(w) >= 4} :
        FeedCmdOk /\ Write(ix, v, nextResp)

\* let response = ServerResponse::try_from(data)?; self.interface.sdo.transit(response)
FeedRx ==
    \E f \in FeedFrames :
        /\ FeedCapOk(f)
        /\ DecodeServerResponse(f)[1] = "Ok"
        /\ TransitCall(DecodeServerResponse(f)[2])
        /\ UNCHANGED acks

NextFeed == FeedRead \/ FeedWrite \/ FeedRx

SpecFeed == Init /\ [][NextFeed]_vars

----------------------------------------------------------------------------
(* COB-ID: FunCode from and to the 11-bit identifier *)

\* 7 bits for node ID
NODE_MASK == 127

\* 4 bits for function code
FUN_MASK == 1920

\* FunCode
Broadcast(cmd) == <<"Broadcast", cmd>>
Node(cmd, node) == <<"Node", cmd, node>>

\* variant: SYNC is recognised whatever the node bits are
DecodeBroadcast_SyncAnyNode(cob_id) ==
    LET fun == BitAnd(cob_id, FUN_MASK)
    IN  IF fun = 0 THEN Some("Nmt")
        ELSE IF fun = 128 THEN Some("Sync")
        ELSE None

\* decode_broadcast(cob_id)
DecodeBroadcast(cob_id) ==
    LET fun == BitAnd(cob_id, FUN_MASK)
        node == BitAnd(cob_id, NODE_MASK)
    IN  IF fun = 0 THEN Some("Nmt")
        ELSE IF fun = 128 /\ node = 0 THEN Some("Sync")
        ELSE None

\* the function codes of decode_node_code and encode_node_code, in the order of the arms
NodeCodes ==
    << <<128, "Emergency">>, <<256, "Time">>, <<384, "Pdo1Tx">>, <<512, "Pdo1Rx">>,
       <<640, "Pdo2Tx">>, <<768, "Pdo2Rx">>, <<896, "Pdo3Tx">>, <<1024, "Pdo3Rx">>,
       <<1152, "Pdo4Tx">>, <<1280, "Pdo4Rx">>, <<1408, "SdoResp">>, <<1536, "SdoReq">>,
       <<1792, "Heartbeat">> >>

\* variant: the request function code is taken for a response
DecodeNodeCode_ReqAsResp(func_part) ==
    IF func_part = 1536 THEN "SdoResp"
    ELSE IF \E k \in 1 .. Len(NodeCodes) : NodeCodes[k][1] = func_part
    THEN NodeCodes[CHOOSE k \in 1 .. Len(NodeCodes) : NodeCodes[k][1] = func_part][2]
    ELSE "Unused"

\* decode_node_code(func_part)
DecodeNodeCode(func_part) ==
    IF \E k \in 1 .. Len(NodeCodes) : NodeCodes[k][1] = func_part
    THEN NodeCodes[CHOOSE k \in 1 .. Len(NodeCodes) : NodeCodes[k][1] = func_part][2]
    ELSE "Unused"

\* From<u32> for FunCode
FunCodeFrom(cob_id) ==
    LET b == DecodeBroadcast(cob_id)
    IN  IF b # None THEN Broadcast(b[1])
        ELSE Node(DecodeNodeCode(BitAnd(cob_id, FUN_MASK)), BitAnd(cob_id, NODE_MASK) % 256)

\* encode_node_code(cmd)
EncodeNodeCode(cmd) ==
    IF cmd = "Unused" THEN 0
    ELSE NodeCodes[CHOOSE k \in 1 .. Len(NodeCodes) : NodeCodes[k][2] = cmd][1]

\* From<FunCode> for u32
FunCodeInto(code) ==
    IF code[1] = "Broadcast"
    THEN (IF code[2] = "Nmt" THEN 0 ELSE 128)
    ELSE BitOr(EncodeNodeCode(code[2]), BitAnd(code[3], NODE_MASK))

\* CANFrame
CANFrame(cobid, len, d) == [can_cobid |-> cobid, can_len |-> len, can_data |-> d]

----------------------------------------------------------------------------
(* COB-ID conversions applied to values: encode a FunCode, decode an identifier *)

\* NodeCmd, in the order of the enum
NodeCmds ==
    {"Emergency", "Time", "Pdo1Tx", "Pdo1Rx", "Pdo2Tx", "Pdo2Rx", "Pdo3Tx", "Pdo3Rx",
     "Pdo4Tx", "Pdo4Rx", "SdoResp", "SdoReq", "Heartbeat", "Unused"}

\* every FunCode: the node of FunCode::Node is a u8
FunCodes ==
    {Broadcast("Nmt"), Broadcast("Sync")} \cup {Node(cmd, node) : cmd \in NodeCmds, node \in Byte}

\* a FunCode slot that holds no value: the identifier came from the bus
FromBus == <<"bus">>

\* the 11-bit identifiers
CobIds == 0 .. 2047

InitCob ==
    /\ InitMachine /\ InitHist /\ InitCodec /\ InitLoop
    /\ \/ fcode \in FunCodes /\ fcob = None
       \/ fcode = FromBus /\ fcob \in {Some(c) : c \in CobIds}
    /\ fdec = <<"none">>
    /\ parser = CANFrameMachineDefault
    /\ rawFrame = CANFrameMachineDefault.can_frame
    /\ rawIn = <<>>
    /\ rawFed = 0
    /\ rawObs = <<>>
    /\ rawOut = <<>>

\* let cob_id: u32 = code.into()
CobEncode ==
    /\ fcode # FromBus
    /\ fcob = None
    /\ fcob' = Some(FunCodeInto(fcode))
    /\ UNCHANGED <<fcode, fdec, parser, rawFrame, rawIn, rawFed, rawObs, rawOut>>
    /\ UNCHANGED machineVars
    /\ UNCHANGED histVars
    /\ UNCHANGED codecVars
    /\ UNCHANGED loopVars

\* FunCode::from(cob_id)
CobDecode ==
    /\ fcob # None
    /\ fdec = <<"none">>
    /\ fdec' = FunCodeFrom(fcob[1])
    /\ UNCHANGED <<fcode, fcob, parser, rawFrame, rawIn, rawFed, rawObs, rawOut>>
    /\ UNCHANGED machineVars
    /\ UNCHANGED histVars
    /\ UNCHANGED codecVars
    /\ UNCHANGED loopVars

NextCob == CobEncode \/ CobDecode

SpecCob == InitCob /\ [][NextCob]_vars

----------------------------------------------------------------------------
(* The byte-stream frame parser, src/src/raw.rs *)

\* CANFrame::write_to_slice(buffer), the 16 bytes written; the identifiers of the
\* model stay below 2^31
WriteToSlice(f) ==
    ToLeBytes(f.can_cobid) \o <<f.can_len % 256>> \o <<0, 0, 0>> \o f.can_data

\* the parser after a panic: can_data[self.index] with index >= 8
ParserPanicked(p) == [p EXCEPT !.state = "Panicked"]

\* variant: the last data byte does not end the frame
GetDataByte_NoFinalOnLast(p, x) ==
    LET q == IF p.len >= 1
             THEN IF p.index >= 8 THEN ParserPanicked(p)
                  ELSE [p EXCEPT !.len = p.len - 1, !.state = "Data",
                                 !.can_frame.can_data[p.index + 1] = x]
             ELSE [p EXCEPT !.state = "Final"]
    IN  IF q.state = "Panicked" THEN q ELSE [q EXCEPT !.index = p.index + 1]

\* CANFrameMachine::get_data_byte(x)
GetDataByte(p, x) ==
    LET q == IF p.len > 1
             THEN IF p.index >= 8 THEN ParserPanicked(p)
                  ELSE [p EXCEPT !.len = p.len - 1, !.state = "Data",
                                 !.can_frame.can_data[p.index + 1] = x]
             ELSE IF p.len = 1
             THEN IF p.index >= 8 THEN ParserPanicked(p)
                  ELSE [p EXCEPT !.len = p.len - 1, !.state = "Final",
                                 !.can_frame.can_data[p.index + 1] = x]
             ELSE [p EXCEPT !.state = "Final"]
    IN  IF q.state = "Panicked" THEN q ELSE [q EXCEPT !.index = p.index + 1]

\* CANFrameMachine::transit(x)
ParserTransit(p, x) ==
    CASE p.state = "Init" ->
            [p EXCEPT !.state = "Id0", !.can_frame.can_cobid = x]
      [] p.state = "Id0" ->
            [p EXCEPT !.state = "Id1",
                      !.can_frame.can_cobid = BitOr(p.can_frame.can_cobid, x * 256)]
      [] p.state = "Id1" ->
            [p EXCEPT !.state = "Id2",
                      !.can_frame.can_cobid = BitOr(p.can_frame.can_cobid, x * 65536)]
      [] p.state = "Id2" ->
            [p EXCEPT !.state = "Id3",
                      !.can_frame.can_cobid = BitOr(p.can_frame.can_cobid, x * 16777216)]
      [] p.state = "Id3" ->
            [p EXCEPT !.state = "Len", !.len = x, !.can_frame.can_len = x]
      [] p.state = "Len" -> [p EXCEPT !.state = "Skip0"]
      [] p.state = "Skip0" -> [p EXCEPT !.state = "Skip1"]
      [] p.state = "Skip1" -> [p EXCEPT !.state = "Skip2"]
      [] p.state = "Skip2" -> GetDataByte(p, x)
      [] p.state = "Data" -> GetDataByte(p, x)
      [] p.state = "Final" -> [p EXCEPT !.index = p.index + 1]
      [] OTHER -> p

\* CANFrameMachine::observe()
ParserObserve(p) ==
    IF p.state = "Final" /\ p.index = 8 THEN Some(p.can_frame) ELSE None

\* CANFrameMachine::initial()
ParserInitial(p) ==
    [state |-> "Init",
     can_frame |-> [can_cobid |-> 0, can_len |-> 0, can_data |-> <<0, 0, 0, 0, 0, 0, 0, 0>>],
     len |-> 0,
     index |-> 0]

\* the 16-byte serialization of a frame: identifier in little endian, length, three
\* zero bytes, payload
FrameBytes(f) ==
    [k \in 1 .. 16 |->
        IF k <= 4 THEN (f.can_cobid \div Pow2(8 * (k - 1))) % 256
        ELSE IF k = 5 THEN f.can_len
        ELSE IF k <= 8 THEN 0
        ELSE f.can_data[k - 8]]

\* identifiers of the frames fed to the parser
RawCobs == {0, 1794, 305419896, 2147483647}

\* payloads of the frames fed to the parser
RawPayloads ==
    { <<127, 126, 125, 124, 0, 1, 2, 3>>,
      <<170, 187, 204, 221, 238, 255, 0, 17>>,
      <<255, 255, 255, 255, 255, 255, 255, 255>> }

\* longest can_len of a frame fed to the parser; a frame carries at most 8 bytes
MaxRawLen == 9

\* the first n bytes of d, the others zero
ZeroAfter(d, n) == [k \in 1 .. 8 |-> IF k <= n THEN d[k] ELSE 0]

\* the frames fed to the parser: payload bytes beyond can_len zero, or left as they are
RawFrames ==
    {CANFrame(c, n, ZeroAfter(d, n)) : c \in RawCobs, n \in 0 .. MaxRawLen, d \in RawPayloads}
    \cup {CANFrame(c, n, d) : c \in RawCobs, n \in 0 .. MaxRawLen, d \in RawPayloads}

InitRaw ==
    /\ InitMachine /\ InitHist /\ InitCodec /\ InitLoop
    /\ fcode = <<"none">>
    /\ fcob = None
    /\ fdec = <<"none">>
    /\ parser = CANFrameMachineDefault
    /\ rawFrame \in RawFrames
    /\ rawIn = FrameBytes(rawFrame)
    /\ rawFed = 0
    /\ rawObs = <<>>
    /\ rawOut = <<>>

\* parser.transit(x) for the next byte of the stream
RawTransit ==
    /\ parser.state # "Panicked"
    /\ rawFed < Len(rawIn)
    /\ Len(rawObs) = rawFed
    /\ parser' = ParserTransit(parser, rawIn[rawFed + 1])
    /\ rawFed' = rawFed + 1
    /\ UNCHANGED <<fcode, fcob, fdec, rawFrame, rawIn, rawObs, rawOut>>
    /\ UNCHANGED machineVars
    /\ UNCHANGED histVars
    /\ UNCHANGED codecVars
    /\ UNCHANGED loopVars

\* parser.observe()
RawObserve ==
    /\ parser.state # "Panicked"
    /\ Len(rawObs) < rawFed
    /\ rawObs' = Append(rawObs, ParserObserve(parser))
    /\ UNCHANGED <<fcode, fcob, fdec, parser, rawFrame, rawIn, rawFed, rawOut>>
    /\ UNCHANGED machineVars
    /\ UNCHANGED histVars
    /\ UNCHANGED codecVars
    /\ UNCHANGED loopVars

\* can_frame.write_to_slice(&mut frame1) for the frame observed last
RawWrite ==
    /\ rawObs # <<>>
    /\ rawObs[Len(rawObs)] # None
    /\ rawOut = <<>>
    /\ rawOut' = WriteToSlice(rawObs[Len(rawObs)][1])
    /\ UNCHANGED <<fcode, fcob, fdec, parser, rawFrame, rawIn, rawFed, rawObs>>
    /\ UNCHANGED machineVars
    /\ UNCHANGED histVars
    /\ UNCHANGED codecVars
    /\ UNCHANGED loopVars

\* parser.initial(), and the next frame is serialized
RawInitial ==
    /\ parser.state # "Panicked"
    /\ rawFed = Len(rawIn)
    /\ Len(rawObs) = rawFed
    /\ parser' = ParserInitial(parser)
    /\ \E f \in RawFrames :
        /\ rawFrame' = f
        /\ rawIn' = FrameBytes(f)
    /\ rawFed' = 0
    /\ rawObs' = <<>>
    /\ rawOut' = <<>>
    /\ UNCHANGED <<fcode, fcob, fdec>>
    /\ UNCHANGED machineVars
    /\ UNCHANGED histVars
    /\ UNCHANGED codecVars
    /\ UNCHANGED loopVars

NextRaw == RawTransit \/ RawObserve \/ RawWrite \/ RawInitial

SpecRaw == InitRaw /\ [][NextRaw]_vars

----------------------------------------------------------------------------
(* The machine of a ClientCtx as a value, so that one handler can make several calls *)

Mach ==
    [index |-> index, state |-> state, data_index |-> data_index,
     read_responder |-> read_responder, write_responder |-> write_responder,
     data |-> data, panic |-> panicked]

\* self.interface.sdo.read(index.into(), resp)
MachRead(m, ix, r) ==
    [m EXCEPT !.index = ix, !.read_responder = Some(r), !.state = InitUpload]

\* self.interface.sdo.write(index.into(), obj, resp)
MachWrite(m, ix, v, r) ==
    [m EXCEPT !.index = ix, !.data = IntoBuf(m.data, v), !.write_responder = Some(r),
              !.state = WriteState(Len(v))]

\* self.interface.sdo.transit(response)
MachTransit(m, resp) ==
    LET r == TransitOf(m.state, m.index, m.data_index, m.data, resp)
    IN  [m EXCEPT !.state = r.state, !.data_index = r.data_index, !.data = r.data,
                  !.panic = r.panic]

\* self.interface.sdo.observe(): the machine it leaves and what it returns
MachObserve(m) ==
    LET r == ObserveOf(m.state, m.index, m.data_index, m.data,
                       m.read_responder, m.write_responder)
    IN  [m |-> [m EXCEPT !.read_responder = r.read_responder,
                         !.write_responder = r.write_responder, !.panic = r.panic],
         obs |-> r.obs]

\* variant: every observation counts as ready
IsReady_Always(o) == TRUE

\* ClientOutput::is_ready
IsReady(o) == o[1] # "Output"

----------------------------------------------------------------------------
(* ClientCtx: the handlers of the dispatch loop *)

\* what handling one event leaves behind: the machine, the frames handed to
\* send_frame, the objects handed to dictionary.set, the values handed to respond,
\* whether the handler returned Ok, the machine calls it made, whether a command
\* was accepted, the last observation and the responders returned by observations
Handled(m, s, ds, dl, ok, calls, acc, o, taken) ==
    [m |-> m, sent |-> s, dictSet |-> ds, delivered |-> dl, ok |-> ok,
     calls |-> calls, accepted |-> acc, obs |-> o, taken |-> taken]

\* a call that panicked: nothing is sent or published and the loop is gone
Crashed(m, calls, taken) ==
    Handled(m, <<>>, <<>>, <<>>, FALSE, calls, FALSE, Panicked, taken)

\* D::Object::try_from((index, &data[0..len])), when it succeeds
Obj(ix, bytes) == <<"Obj", ix, bytes>>

\* the value of respond(()) 
Unit == <<"Unit">>

\* variant: the frame is handed to send_frame twice
HandleSdoRequest_Twice(node, out) ==
    LET f == CANFrame(FunCodeInto(Node("SdoReq", node)), 8, EncodeClientRequest(out))
    IN  <<f, f>>

\* handle_sdo_request(node, out): the frames handed to send_frame
HandleSdoRequest(node, out) ==
    << CANFrame(FunCodeInto(Node("SdoReq", node)), 8, EncodeClientRequest(out)) >>

\* the end of a handler whose last observation is o: an Output is encoded and sent,
\* tx tells whether send_frame returns Ok
SendOutput(m, node, o, tx, calls, acc, taken) ==
    IF EncodeClientRequest(o[2]) = <<"Panic">>
    THEN Crashed(m, calls, taken)
    ELSE Handled(m, HandleSdoRequest(node, o[2]), <<>>, <<>>, tx, calls, acc, o, taken)

\* variant: the value is published but not handed to the responder
HandleSdoResult_NoRespond(m, res, cv, calls, o, taken) ==
    IF res[1] = "UploadCompleted"
    THEN IF ~cv
         THEN Handled(m, <<>>, <<>>, <<>>, FALSE, calls, FALSE, o, taken)
         ELSE Handled(m, <<>>, <<Obj(res[2], Slice(res[3], 0, res[4]))>>, <<>>,
                      TRUE, calls, FALSE, o, taken)
    ELSE Handled(m, <<>>, <<>>,
                 IF res[2] # None THEN << <<res[2][1], Unit>> >> ELSE <<>>,
                 TRUE, calls, FALSE, o, taken)

\* handle_sdo_result(r); cv tells whether the conversions to D::Index and D::Object
\* succeed
HandleSdoResult(m, res, cv, calls, o, taken) ==
    IF res[1] = "UploadCompleted"
    THEN IF ~cv
         THEN Handled(m, <<>>, <<>>, <<>>, FALSE, calls, FALSE, o, taken)
         ELSE LET x == Obj(res[2], Slice(res[3], 0, res[4]))
              IN  Handled(m, <<>>, <<x>>,
                          IF res[5] # None THEN << <<res[5][1], x>> >> ELSE <<>>,
                          TRUE, calls, FALSE, o, taken)
    ELSE Handled(m, <<>>, <<>>,
                 IF res[2] # None THEN << <<res[2][1], Unit>> >> ELSE <<>>,
                 TRUE, calls, FALSE, o, taken)

\* handle_cmd(cmd): cmd is "Read" or "Write", v the bytes of dictionary.get(&index)
HandleCmd(cmd, node, ix, v, r, tx) ==
    LET o1 == MachObserve(Mach)
        t1 == <<ResponderOf(o1.obs)>>
    IN  IF o1.m.panic THEN Crashed(o1.m, <<"observe">>, <<>>)
        ELSE IF ~IsReady(o1.obs)
        THEN Handled(o1.m, <<>>, <<>>, <<>>, TRUE, <<"observe">>, FALSE, o1.obs, t1)
        ELSE LET m2 == IF cmd = "Read" THEN MachRead(o1.m, ix, r)
                       ELSE MachWrite(o1.m, ix, v, r)
                 o2 == MachObserve(m2)
                 calls == <<"observe", IF cmd = "Read" THEN "read" ELSE "write", "observe">>
                 t2 == t1 \o <<ResponderOf(o2.obs)>>
             IN  IF o2.m.panic THEN Crashed(o2.m, calls, t1)
                 ELSE IF o2.obs[1] = "Output"
                 THEN SendOutput(o2.m, node, o2.obs, tx, calls, TRUE, t2)
                 ELSE Handled(o2.m, <<>>, <<>>, <<>>, TRUE, calls, TRUE, o2.obs, t2)

\* handle_sdo_rx(node, data)
HandleSdoRx(node, d, tx, cv) ==
    LET response == DecodeServerResponse(d)
    IN  IF response[1] = "Err"
        THEN Handled(Mach, <<>>, <<>>, <<>>, FALSE, <<>>, FALSE, NoObs, <<>>)
        ELSE LET m1 == MachTransit(Mach, response[2])
                 o == MachObserve(m1)
                 calls == <<"transit", "observe">>
                 taken == <<ResponderOf(o.obs)>>
             IN  IF m1.panic THEN Crashed(m1, <<"transit">>, <<>>)
                 ELSE IF o.m.panic THEN Crashed(o.m, calls, <<>>)
                 ELSE CASE o.obs[1] = "Output" ->
                            SendOutput(o.m, node, o.obs, tx, calls, FALSE, taken)
                        [] o.obs[1] = "Done" ->
                            HandleSdoResult(o.m, o.obs[2], cv, calls, o.obs, taken)
                        [] OTHER ->
                            Handled(o.m, <<>>, <<>>, <<>>, TRUE, calls, FALSE, o.obs, taken)

\* handle_node_cmd(cmd, node, data): only SdoResp reaches the SDO machine, Heartbeat
\* goes to HeartbeatMachine::transit, which keeps no state
HandleNodeCmd(cmd, node, d, tx, cv) ==
    IF cmd = "SdoResp" THEN HandleSdoRx(node, d, tx, cv)
    ELSE Handled(Mach, <<>>, <<>>, <<>>, TRUE, <<>>, FALSE, NoObs, <<>>)

\* handle_rx(frame)
HandleRx(frame, tx, cv) ==
    LET fun_code == FunCodeFrom(frame.can_cobid)
    IN  IF fun_code[1] = "Broadcast"
        THEN Handled(Mach, <<>>, <<>>, <<>>, TRUE, <<>>, FALSE, NoObs, <<>>)
        ELSE HandleNodeCmd(fun_code[2], fun_code[3], frame.can_data, tx, cv)

----------------------------------------------------------------------------
(* SpecLoop: ClientCtx::run, one action per event returned by wait_can_event *)

\* the state and the history after an event e handled with the result h; a request
\* counts as outstanding from send_frame until a response reaches transit; the node
\* of a command is kept when the command is accepted; last keeps the calls made on
\* the machine outside the loop
Apply(e, h) ==
    /\ index' = h.m.index
    /\ state' = h.m.state
    /\ data_index' = h.m.data_index
    /\ read_responder' = h.m.read_responder
    /\ write_responder' = h.m.write_responder
    /\ data' = h.m.data
    /\ panicked' = h.m.panic
    /\ running' = (h.ok /\ ~h.m.panic)
    /\ sent' = h.sent
    /\ dictSet' = h.dictSet
    /\ delivered' = h.delivered
    /\ ev' = [e EXCEPT !.calls = h.calls, !.accepted = h.accepted,
                       !.node = IF h.accepted THEN e.node ELSE 0]
    /\ outstanding' =
            (IF \E k \in DOMAIN h.calls : h.calls[k] = "transit" THEN 0 ELSE outstanding)
            + Len(h.sent)
    /\ obs' = h.obs
    /\ UNCHANGED last
    /\ doneCount' =
            [x \in DOMAIN doneCount |->
                doneCount[x] + Cardinality({k \in DOMAIN h.taken : h.taken[k] = Some(x)})]
    /\ upl' = UplOff
    /\ UNCHANGED acks
    /\ UNCHANGED codecVars
    /\ UNCHANGED frameVars

CmdEvent(cmd, node) == [NoEvent EXCEPT !.kind = "cmd", !.cmd = cmd, !.node = node]

\* an inbound frame: whether its identifier has the SdoResp function code 0x580 and,
\* if so, whether the command specifier in the top three bits of its command byte
\* is above 3, and that specifier when it is
RxEvent(f) ==
    [NoEvent EXCEPT !.kind = "rx",
                    !.route = IF (f.can_cobid \div 128) % 16 = 11 THEN "SdoResp" ELSE "other",
                    !.unknown = /\ (f.can_cobid \div 128) % 16 = 11
                                /\ f.can_data[1] \div 32 > 3,
                    !.cs = IF (f.can_cobid \div 128) % 16 = 11 /\ f.can_data[1] \div 32 > 3
                           THEN f.can_data[1] \div 32 ELSE 0]

LoopNodes == {1, 127}

\* send_frame can fail only where the handler reaches it
TxOutcomes(h) == IF h.sent # <<>> THEN BOOLEAN ELSE {TRUE}

\* the conversions can fail only where the handler reaches them
CvOutcomes(h) == IF h.dictSet # <<>> THEN BOOLEAN ELSE {TRUE}

\* CANEvent::Cmd(ClientCmd::Read(node, index, resp)); a responder gets an identity
\* when it reaches the machine, the responder of an ignored command is dropped
LoopRead ==
    /\ running /\ ~panicked
    /\ nextResp <= MaxResp
    /\ \E node \in LoopNodes, ix \in ArmIx :
      \E tx \in TxOutcomes(HandleCmd("Read", node, ix, <<>>, nextResp, TRUE)) :
        /\ LET h == HandleCmd("Read", node, ix, <<>>, nextResp, tx)
           IN  /\ Apply(CmdEvent("Read", node), h)
               /\ rrArg' = IF h.accepted THEN <<ix, nextResp>> ELSE rrArg
               /\ nextResp' = IF Len(h.calls) > 1 THEN nextResp + 1 ELSE nextResp
        /\ UNCHANGED <<rwArg, wval>>
    /\ UNCHANGED <<bind, srv>>

\* CANEvent::Cmd(ClientCmd::Write(node, index, resp)); the dictionary may hold any
\* of the values for the index
LoopWrite ==
    /\ running /\ ~panicked
    /\ nextResp <= MaxResp
    /\ \E node \in LoopNodes, ix \in ArmIx, v \in GenValues :
      \E tx \in TxOutcomes(HandleCmd("Write", node, ix, v, nextResp, TRUE)) :
        /\ LET h == HandleCmd("Write", node, ix, v, nextResp, tx)
           IN  /\ Apply(CmdEvent("Write", node), h)
               /\ rwArg' = IF h.accepted THEN <<ix, nextResp>> ELSE rwArg
               /\ wval' = IF h.accepted THEN v ELSE wval
               /\ nextResp' = IF Len(h.calls) > 1 THEN nextResp + 1 ELSE nextResp
        /\ UNCHANGED rrArg
    /\ UNCHANGED <<bind, srv>>

\* payloads that are not the encoding of a response: server command specifiers 4
\* and 7, and an upload initiate with e = 1, s = 0
LoopRawPayloads ==
    { <<128, 0, 16, 1, 0, 0, 4, 5>>,
      <<224, 0, 16, 1, 0, 0, 0, 0>>,
      <<66, 0, 16, 1, 1, 2, 3, 4>> }

LoopPayloads == {EncodeServerResponse(r) : r \in GenResponses} \cup LoopRawPayloads

\* SdoResp from node 1 and from node 127
LoopSdoRespCobs == {1409, 1535}

\* NMT, SYNC, EMCY, TIME, PDO1 tx, PDO4 rx, SdoReq, unused 0x680, heartbeat
LoopOtherCobs == {0, 128, 129, 257, 385, 1281, 1537, 1665, 1793}

LoopOtherPayloads ==
    { EncodeServerResponse(UploadSingleSegment(Index(4096, 1), 4, ExpData)),
      EncodeServerResponse(DownloadInitAck(Index(4096, 1))) }

LoopFrames ==
    {CANFrame(c, 8, d) : c \in LoopSdoRespCobs, d \in LoopPayloads}
    \cup {CANFrame(c, 8, d) : c \in LoopOtherCobs, d \in LoopOtherPayloads}

\* segments stop once the upload cursor would pass the bound
LoopCapOk(f) ==
    (state.tag = "UploadingMultiples" /\ BitAnd(f.can_data[1], 224) = 0)
        => data_index + 7 <= MaxUploadBytes

\* CANEvent::Rx(frame)
LoopRx ==
    /\ running /\ ~panicked
    /\ \E f \in LoopFrames :
      \E tx \in TxOutcomes(HandleRx(f, TRUE, TRUE)), cv \in CvOutcomes(HandleRx(f, TRUE, TRUE)) :
        /\ LoopCapOk(f)
        /\ Apply(RxEvent(f), HandleRx(f, tx, cv))
        /\ UNCHANGED <<rrArg, rwArg, wval, nextResp>>
    /\ UNCHANGED <<bind, srv>>

NextLoop == LoopRead \/ LoopWrite \/ LoopRx

SpecLoop == Init /\ [][NextLoop]_vars

----------------------------------------------------------------------------
(* SpecBind: the dispatch loop with well-formed responses from two nodes, keeping
   the node of each accepted command and the node of each received frame *)

BindResponses ==
    {UploadSingleSegment(ix, 4, ExpData) : ix \in ArmIx}
    \cup {UploadInitMultiples(ix, 10) : ix \in ArmIx}
    \cup {UploadMultiples(t, e, 7, SegData) : t \in BOOLEAN, e \in BOOLEAN}
    \cup {DownloadInitAck(ix) : ix \in ArmIx}
    \cup {DownloadSegmentAck(t) : t \in BOOLEAN}

BindFrames ==
    {CANFrame(c, 8, EncodeServerResponse(r)) : c \in LoopSdoRespCobs, r \in BindResponses}

\* CANEvent::Cmd(ClientCmd::Read(node, index, resp))
BindRead ==
    /\ running /\ ~panicked
    /\ nextResp <= MaxResp
    /\ \E node \in LoopNodes, ix \in ArmIx :
      \E tx \in TxOutcomes(HandleCmd("Read", node, ix, <<>>, nextResp, TRUE)) :
        /\ LET h == HandleCmd("Read", node, ix, <<>>, nextResp, tx)
           IN  /\ Apply(CmdEvent("Read", node), h)
               /\ rrArg' = IF h.accepted THEN <<ix, nextResp>> ELSE rrArg
               /\ nextResp' = IF Len(h.calls) > 1 THEN nextResp + 1 ELSE nextResp
               /\ bind' = [node |-> IF h.accepted THEN node ELSE bind.node, from |-> 0]
        /\ UNCHANGED <<rwArg, wval, srv>>

\* CANEvent::Cmd(ClientCmd::Write(node, index, resp))
BindWrite ==
    /\ running /\ ~panicked
    /\ nextResp <= MaxResp
    /\ \E node \in LoopNodes, ix \in ArmIx, v \in GenValues :
      \E tx \in TxOutcomes(HandleCmd("Write", node, ix, v, nextResp, TRUE)) :
        /\ LET h == HandleCmd("Write", node, ix, v, nextResp, tx)
           IN  /\ Apply(CmdEvent("Write", node), h)
               /\ rwArg' = IF h.accepted THEN <<ix, nextResp>> ELSE rwArg
               /\ wval' = IF h.accepted THEN v ELSE wval
               /\ nextResp' = IF Len(h.calls) > 1 THEN nextResp + 1 ELSE nextResp
               /\ bind' = [node |-> IF h.accepted THEN node ELSE bind.node, from |-> 0]
        /\ UNCHANGED <<rrArg, srv>>

\* CANEvent::Rx(frame) with an SdoResp frame of node frame.can_cobid & 0x7F
BindRx ==
    /\ running /\ ~panicked
    /\ \E f \in BindFrames :
      \E tx \in TxOutcomes(HandleRx(f, TRUE, TRUE)), cv \in CvOutcomes(HandleRx(f, TRUE, TRUE)) :
        /\ LoopCapOk(f)
        /\ Apply(RxEvent(f), HandleRx(f, tx, cv))
        /\ bind' = [bind EXCEPT !.from = f.can_cobid % 128]
        /\ UNCHANGED <<rrArg, rwArg, wval, nextResp, srv>>

NextBind == BindRead \/ BindWrite \/ BindRx

SpecBind == Init /\ [][NextBind]_vars

----------------------------------------------------------------------------
(* Properties *)

\* the call being made in a step, read from the history of the state it leads to
StepOp(op) == last'.op = op

IsTransitOf(kind) == last'.op = "transit" /\ last'.arg[1] = kind

\* C1: expedited upload. After read(ix, rr), transit(UploadSingleSegment(ix, n, d))
\* with n in 0..4 gives SingleSegmentUploaded, buffer[0..4] = d and data_index = n,
\* and the next observe() returns Done(UploadCompleted(ix, buffer, n, Some(rr))).
C1_Step ==
    /\ (/\ IsTransitOf("UploadSingleSegment")
        /\ state.tag = "InitUpload"
        /\ last'.arg[2] = rrArg[1]
        /\ last'.arg[3] \in 0 .. 4)
       => (/\ state' = SingleSegmentUploaded
           /\ Slice(data', 0, 4) = last'.arg[4]
           /\ data_index' = last'.arg[3]
           /\ ~panicked')
    /\ (/\ last.op = "transit" /\ last.arg[1] = "UploadSingleSegment"
        /\ last.pre = "InitUpload"
        /\ last.arg[2] = rrArg[1]
        /\ last.arg[3] \in 0 .. 4
        /\ StepOp("observe"))
       => (/\ obs' = Done(UploadCompleted(rrArg[1], data, last.arg[3], Some(rrArg[2])))
           /\ Slice(data, 0, 4) = last.arg[4])

C1_ExpeditedUpload == [][C1_Step]_vars

C1_Witness ==
    /\ last.op = "observe" /\ last.rep = 1
    /\ state = SingleSegmentUploaded
    /\ data_index = 2
    /\ obs = Done(UploadCompleted(rrArg[1], data, 2, Some(rrArg[2])))

\* C2: segmented upload. After read(ix, rr) and UploadInitMultiples(ix, size), a
\* sequence of segments with toggles alternating from false, lengths in 0..7 summing
\* to at most 1024 and only the final one marked last leaves the machine in
\* MultiplesUploaded; observe() returns Done(UploadCompleted(ix, buffer, sum, Some(rr)))
\* and buffer[0..sum] is the concatenation of the first li bytes of each segment.
C2_SegmentedUpload ==
    (upl.on /\ upl.fin) =>
        /\ state = MultiplesUploaded
        /\ ~panicked
        /\ data_index = Len(upl.bytes)
        /\ Slice(data, 0, Len(upl.bytes)) = upl.bytes
        /\ (last.op = "observe" /\ last.rep = 1) =>
               obs = Done(UploadCompleted(rrArg[1], data, Len(upl.bytes), Some(rrArg[2])))

C2_Witness ==
    /\ upl.on /\ upl.fin
    /\ Len(upl.bytes) = DATA_LEN
    /\ last.op = "observe" /\ last.rep = 1
    /\ obs[1] = "Done"

\* C3: expedited download. For a write of a value of n bytes, n in 1..4, the first
\* observe() returns Output(InitSingleSegmentDownload(ix, n, d)) with d the first 4
\* bytes of the buffer, and after transit(DownloadInitAck(ix)) observe() returns
\* Done(DownloadCompleted(Some(rw))).
C3_Step ==
    /\ (/\ last.op = "write"
        /\ Len(last.arg[2]) \in 1 .. 4
        /\ StepOp("observe"))
       => (/\ obs' = Output(ReqInitSingleSegmentDownload(
                                last.arg[1], Len(last.arg[2]), Slice(data, 0, 4)))
           /\ Take(Slice(data, 0, 4), Len(last.arg[2])) = last.arg[2])
    /\ (/\ last.op = "transit" /\ last.arg[1] = "DownloadInitAck"
        /\ last.pre = "InitSingleDownload"
        /\ last.arg[2] = rwArg[1]
        /\ Len(wval) \in 1 .. 4
        /\ StepOp("observe"))
       => obs' = Done(DownloadCompletedRes(Some(rwArg[2])))

C3_ExpeditedDownload == [][C3_Step]_vars

\* C4: segmented download. For a write of n > 4 bytes on a fresh machine whose every
\* request is acknowledged with the matching index and toggle, the observations are
\* Output(InitMultipleDownload(ix, n)), then ceil(n/7) outputs DownloadSegment(toggle,
\* last, 7, chunk) with toggles alternating from false, chunks the consecutive 7-byte
\* pieces of the value (the final one zero-padded) and last set only on the final
\* one, then Done(DownloadCompleted(Some(rw))).
DownSegments(n) == (n + 6) \div 7

DownChunk(v, j) == PadTo([k \in 1 .. (Min(7 * j, Len(v)) - 7 * (j - 1)) |-> v[7 * (j - 1) + k]], 7)

DownExpected(v, j) ==
    IF j = 0 THEN Output(ReqInitMultipleDownload(rwArg[1], Len(v)))
    ELSE IF j <= DownSegments(Len(v))
         THEN Output(ReqDownloadSegment(j % 2 = 0, j = DownSegments(Len(v)), 7, DownChunk(v, j)))
         ELSE Done(DownloadCompletedRes(Some(rwArg[2])))

C4_SegmentedDownload ==
    (last.op = "observe" /\ last.rep = 1 /\ Len(wval) > 4) => obs = DownExpected(wval, acks)

\* C5: toggle mismatch. In UploadingMultiples(t) a segment whose toggle differs from
\* t gives ErrorState(ToggleMismatch) with the buffer and data_index unchanged, and
\* the following observe() returns Error(ToggleMismatch).
C5_Step ==
    /\ (/\ IsTransitOf("UploadMultiples")
        /\ state.tag = "UploadingMultiples"
        /\ last'.arg[2] # state.toggle)
       => (/\ state' = ErrorState(ToggleMismatch)
           /\ data' = data
           /\ data_index' = data_index)
    /\ (/\ last.op = "transit" /\ last.arg[1] = "UploadMultiples"
        /\ last.pre = "UploadingMultiples"
        /\ state = ErrorState(ToggleMismatch)
        /\ StepOp("observe"))
       => obs' = Error(ToggleMismatch)

C5_ToggleMismatch == [][C5_Step]_vars

C5_Witness ==
    /\ last.op = "observe" /\ last.rep = 1
    /\ obs = Error(ToggleMismatch)
    /\ state = ErrorState(ToggleMismatch)
    /\ data_index > 0

\* C6: index mismatch. In InitUpload with active index ix, an UploadSingleSegment or
\* UploadInitMultiples response carrying ix' # ix gives
\* ErrorState(IndexMismatch(ix', ix)), with the buffer and data_index unchanged.
C6_Step ==
    (/\ last'.op = "transit"
     /\ last'.arg[1] \in {"UploadSingleSegment", "UploadInitMultiples"}
     /\ state.tag = "InitUpload"
     /\ last'.arg[2] # rrArg[1])
    => (/\ state' = ErrorState(IndexMismatch(last'.arg[2], rrArg[1]))
        /\ data' = data
        /\ data_index' = data_index)

C6_IndexMismatch == [][C6_Step]_vars

C6_Witness ==
    /\ last.op = "transit" /\ last.arg[1] = "UploadSingleSegment"
    /\ last.pre = "InitUpload"
    /\ state = ErrorState(IndexMismatch(Index(4097, 1), Index(4096, 1)))

\* C7: buffer overflow. In UploadingMultiples with a matching toggle, a segment with
\* data_index + len > 1024 gives ErrorState(BufferOverflow) with the buffer and
\* data_index unchanged; no segment is written at or beyond position 1024.
C7_Step ==
    /\ (/\ IsTransitOf("UploadMultiples")
        /\ state.tag = "UploadingMultiples"
        /\ last'.arg[2] = state.toggle
        /\ data_index + last'.arg[4] > DATA_LEN)
       => (/\ state' = ErrorState(BufferOverflow)
           /\ data' = data
           /\ data_index' = data_index)
    /\ IsTransitOf("UploadMultiples")
       => (/\ ~panicked'
           /\ DOMAIN data' = 0 .. (DATA_LEN - 1)
           /\ data_index' <= DATA_LEN)

C7_BufferOverflow == [][C7_Step]_vars

C7_Witness ==
    /\ last.op = "transit" /\ last.arg[1] = "UploadMultiples"
    /\ last.pre = "UploadingMultiples"
    /\ state = ErrorState(BufferOverflow)
    /\ data_index + last.arg[4] > DATA_LEN
    /\ data_index > DATA_LEN - 7

\* C8: protocol failures are terminal. In an ErrorState every transit leaves the
\* machine in an ErrorState and every observe() returns Error, never Output; only
\* read, write or initial take the machine out of the error state.
C8_Step ==
    state.tag = "ErrorState" =>
        /\ StepOp("transit") => state'.tag = "ErrorState"
        /\ StepOp("observe") => (obs' = Error(state.err) /\ state' = state)
        /\ state'.tag # "ErrorState" => last'.op \in {"read", "write", "initial"}

C8_ErrorsAreTerminal == [][C8_Step]_vars

C8_Witness ==
    /\ last.op = "transit"
    /\ last.pre = "ErrorState"
    /\ state.tag = "ErrorState"

\* C9: single-shot responders. Over any sequence of calls, each responder passed to
\* read or write is returned by at most one Done observation.
C9_SingleShot == \A r \in DOMAIN doneCount : doneCount[r] <= 1

C9_Witness ==
    /\ last.op = "observe" /\ last.rep = 2
    /\ obs[1] = "Done"
    /\ \E r \in DOMAIN doneCount : doneCount[r] = 1

\* C10: client request round trip. Decoding the 8 bytes that encode a valid
\* ClientRequest yields the same request; in particular every Index survives the
\* 3-byte little-endian write then read.
C10_ClientRoundTrip ==
    (creq \in ClientRequests /\ cdec # <<"none">>) =>
        /\ Len(cbuf) = 8
        /\ cdec = <<"Ok", creq>>

C10_Witness ==
    /\ cdec = <<"Ok", creq>>
    /\ creq[1] = "AbortTransfer"
    /\ creq[2] = Index(65535, 255)

----------------------------------------------------------------------------
(* The frame tables: the 8 bytes of each value, by arithmetic on its fields *)

TableIndex(ix) == <<ix[1] % 256, ix[1] \div 256, ix[2]>>

TableU32(x) ==
    <<x % 256, (x \div 256) % 256, (x \div 65536) % 256, x \div 16777216>>

TableBit(b) == IF b THEN 1 ELSE 0

ClientTable(req) ==
    CASE req[1] = "InitUpload" -> <<64>> \o TableIndex(req[2]) \o <<0, 0, 0, 0>>
      [] req[1] = "UploadSegment" -> <<96 + 16 * TableBit(req[2]), 0, 0, 0, 0, 0, 0, 0>>
      [] req[1] = "InitSingleSegmentDownload" ->
            <<32 + 4 * (4 - req[3]) + 3>> \o TableIndex(req[2]) \o req[4]
      [] req[1] = "InitMultipleDownload" ->
            <<32 + (IF req[3] > 0 THEN 1 ELSE 0)>> \o TableIndex(req[2]) \o TableU32(req[3])
      [] req[1] = "DownloadSegment" ->
            <<16 * TableBit(req[2]) + 2 * (7 - req[4]) + TableBit(req[3])>> \o req[5]
      [] req[1] = "AbortTransfer" ->
            <<128>> \o TableIndex(req[2]) \o TableU32(AbortCodeAsU32(req[3]))

ServerTable(resp) ==
    CASE resp[1] = "UploadSingleSegment" ->
            <<64 + 4 * (4 - resp[3]) + 3>> \o TableIndex(resp[2]) \o resp[4]
      [] resp[1] = "UploadInitMultiples" ->
            <<64 + (IF resp[3] > 0 THEN 1 ELSE 0)>> \o TableIndex(resp[2]) \o TableU32(resp[3])
      [] resp[1] = "UploadMultiples" ->
            <<16 * TableBit(resp[2]) + 2 * (7 - resp[4]) + TableBit(resp[3])>> \o resp[5]
      [] resp[1] = "DownloadInitAck" -> <<96>> \o TableIndex(resp[2]) \o <<0, 0, 0, 0>>
      [] resp[1] = "DownloadSegmentAck" ->
            <<32 + 16 * TableBit(resp[2]), 0, 0, 0, 0, 0, 0, 0>>

\* C11: server response round trip. Decoding the 8 bytes that encode a valid
\* ServerResponse (UploadSingleSegment with n in 0..4 included) yields the same
\* response.
C11_ServerRoundTrip ==
    (sresp \in ServerResponses /\ sdec # <<"none">>) =>
        /\ Len(sbuf) = 8
        /\ sdec = <<"Ok", sresp>>

\* C12: client request wire format. The encoder produces exactly the 8 bytes of
\* the client table for every request it accepts.
C12_ClientWireFormat ==
    (creq \in ClientRequestsInRange /\ cbuf # <<>>) => cbuf = ClientTable(creq)

C12_Witness ==
    /\ creq = ReqAbortTransfer(Index(4096, 1), "SDOProtocolTimedOut")
    /\ cbuf = <<128, 0, 16, 1, 0, 0, 4, 5>>

\* C13: server response wire format. The encoder produces exactly the 8 bytes of
\* the server table for every response it accepts; byte 0 of
\* UploadSingleSegment(ix, n, d) is 0x40 | ((4 - n) << 2) | 0b11 for n in 0..4.
C13_ServerWireFormat ==
    (sresp \in ServerResponses /\ sbuf # <<>>) => sbuf = ServerTable(sresp)

\* C14: decoding a server response whose command specifier is InitUpload and whose
\* e/s bit pair is 0b10 fails with UnsupportedTransferType.
C14_UnsupportedTransferType ==
    (/\ sresp = FromWire
     /\ sdec # <<"none">>
     /\ BitAnd(sbuf[1], 224) = 64
     /\ BitAnd(sbuf[1], 3) = 2) =>
        /\ sdec[1] = "Err"
        /\ sdec[2][1] = "UnsupportedTransferType"

----------------------------------------------------------------------------
(* The dispatch loop *)

\* the states in which the machine waits for a response
BusyTags ==
    {"InitUpload", "UploadingMultiples", "InitSingleDownload", "InitMultipleDownload",
     "DownloadingSegments"}

\* the fields of the SDO machine are the same before and after the step
MachineUntouched ==
    UNCHANGED <<index, state, data_index, read_responder, write_responder, data>>

\* the download-initiate request for a value v written to ix
InitiateDownload(ix, v) ==
    IF Len(v) <= 4
    THEN ReqInitSingleSegmentDownload(ix, Len(v), PadTo(v, 4))
    ELSE ReqInitMultipleDownload(ix, Len(v))

\* C15: commands while busy are ignored. A Read or Write command that arrives while
\* the machine is in InitUpload, UploadingMultiples, InitSingleDownload,
\* InitMultipleDownload or DownloadingSegments leaves state, index, buffer,
\* data_index and responders unchanged and sends no frame.
C15_Step ==
    (ev'.kind = "cmd" /\ state.tag \in BusyTags) =>
        /\ MachineUntouched
        /\ sent' = <<>>
        /\ ~ev'.accepted

C15_CommandsWhileBusy == [][C15_Step]_vars

C15_Witness ==
    /\ ev.kind = "cmd"
    /\ ev.cmd = "Write"
    /\ ev.calls = <<"observe">>
    /\ state.tag = "UploadingMultiples"
    /\ read_responder = Some(1)
    /\ sent = <<>>

\* C16: an accepted host command sends exactly one frame. A Read(node, ix, rr) or
\* Write(node, ix, rw) that arrives while the machine is not awaiting a response
\* arms the machine and sends one frame with COB-ID 0x600 | node, length 8 and the
\* encoding of InitUpload(ix), or of the download-initiate request, as payload.
C16_Step ==
    (ev'.kind = "cmd" /\ ~(state.tag \in BusyTags)) =>
        /\ ev'.accepted
        /\ Len(sent') = 1
        /\ sent'[1].can_cobid = 1536 + ev'.node
        /\ sent'[1].can_len = 8
        /\ ev'.cmd = "Read" =>
                /\ state' = InitUpload
                /\ sent'[1].can_data = ClientTable(ReqInitUpload(index'))
        /\ ev'.cmd = "Write" =>
                sent'[1].can_data = ClientTable(InitiateDownload(index', wval'))

C16_AcceptedCommandSendsOneFrame == [][C16_Step]_vars

\* C17: upload completion is published once. When an SdoResp frame completes an
\* upload and the conversions succeed, the object decoded from (ix, buffer[0..len])
\* is handed to the dictionary setter exactly once and then to the read responder
\* exactly once, and no request frame is sent in that step.
C17_Step ==
    (/\ ev'.kind = "rx"
     /\ state.tag \in {"InitUpload", "UploadingMultiples"}
     /\ state'.tag \in {"SingleSegmentUploaded", "MultiplesUploaded"}
     /\ running') =>
        LET x == Obj(index, Slice(data', 0, data_index'))
        IN  /\ dictSet' = <<x>>
            /\ read_responder # None =>
                    /\ delivered' = << <<read_responder[1], x>> >>
                    /\ doneCount'[read_responder[1]] = 1
            /\ read_responder = None => delivered' = <<>>
            /\ read_responder' = None
            /\ sent' = <<>>

C18_Step ==
    /\ Len(sent') <= 1
    /\ sent' # <<>> =>
            \/ ev'.kind = "cmd" /\ ev'.accepted
            \/ ev'.kind = "rx" /\ ev'.route = "SdoResp"
    /\ outstanding' <= 1

C18_NoPipelining == [][C18_Step]_vars

C18_Witness ==
    /\ ev.kind = "rx"
    /\ outstanding = 1
    /\ Len(sent) = 1
    /\ sent[1].can_data = ClientTable(ReqUploadSegment(TRUE))

\* C19: non-SDO frames are inert for SDO. An inbound frame whose COB-ID is not that
\* of an SdoResp leaves state, index, buffer, data_index and responders unchanged
\* and sends no frame, in any state of an ongoing transfer.
C19_Step ==
    (ev'.kind = "rx" /\ ev'.route = "other") =>
        /\ MachineUntouched
        /\ sent' = <<>>

C19_NonSdoFramesInert == [][C19_Step]_vars

C19_Witness ==
    /\ ev.kind = "rx"
    /\ ev.route = "other"
    /\ state.tag = "DownloadingSegments"
    /\ write_responder = Some(1)
    /\ sent = <<>>

\* C20: codec errors do not touch the machine. When the payload of an inbound
\* SdoResp frame has an unknown server command specifier, transit is not called,
\* state, index, buffer, data_index and responders are unchanged and no frame is
\* sent.
C20_Step ==
    (ev'.kind = "rx" /\ ev'.unknown) =>
        /\ MachineUntouched
        /\ ev'.calls = <<>>
        /\ sent' = <<>>

C20_CodecErrorsLeaveMachine == [][C20_Step]_vars

C20_Witness ==
    /\ ev.kind = "rx"
    /\ ev.unknown
    /\ ev.calls = <<>>
    /\ state.tag = "InitUpload"
    /\ read_responder = Some(1)
    /\ ~running

----------------------------------------------------------------------------
(* COB-ID routing and the frame parser *)

\* the command of a function field, as the routing table lists them by field / 0x80
TableNodeCmd ==
    <<"Emergency", "Time", "Pdo1Tx", "Pdo1Rx", "Pdo2Tx", "Pdo2Rx", "Pdo3Tx", "Pdo3Rx",
      "Pdo4Tx", "Pdo4Rx", "SdoResp", "SdoReq", "Unused", "Heartbeat", "Unused">>

\* the FunCode the routing table gives for the identifier c
TableFunCode(c) ==
    IF (c \div 128) % 16 = 0 THEN Broadcast("Nmt")
    ELSE IF c = 128 THEN Broadcast("Sync")
    ELSE Node(TableNodeCmd[(c \div 128) % 16], c % 128)

\* C21: COB-ID bijection. For both broadcast commands and every Node(cmd, node) with
\* node < 128 and cmd other than Unused, decoding the identifier produced by
\* encoding the FunCode yields the same FunCode.
C21_CobIdBijection ==
    (/\ fcode \in FunCodes
     /\ fcode[1] = "Node" => (fcode[2] # "Unused" /\ fcode[3] < 128)
     /\ fdec # <<"none">>) =>
        fdec = fcode

\* C22: COB-ID decoding is total and follows the table. Every 11-bit identifier
\* decodes, and the result is broadcast NMT for function field 0, broadcast SYNC for
\* 0x080, and otherwise Node(cmd, c & 0x7F) with cmd taken from the table.
C22_CobIdDecoding ==
    (fcode = FromBus /\ fdec # <<"none">>) =>
        /\ fdec = TableFunCode(fcob[1])
        /\ fdec \in FunCodes

C22_Witness ==
    /\ fcode = FromBus
    /\ fcob = Some(1665)
    /\ fdec = Node("Unused", 1)

\* C23: encoding FunCode::Node(cmd, node) with node >= 128 fails: no COB-ID is
\* produced.
C23_InvalidNodeFails ==
    (/\ fcode \in FunCodes
     /\ fcode[1] = "Node"
     /\ fcode[3] >= 128
     /\ fcob # None) =>
        ~(fcob[1] \in Nat)

\* payload bytes beyond can_len are zero, and can_len is at most 8
ZeroTail(f) ==
    /\ f.can_len <= 8
    /\ \A k \in 1 .. 8 : k > f.can_len => f.can_data[k] = 0

\* C24: byte-stream frame parser. Fed the 16 bytes of the serialization of a frame
\* with can_len in 0..=8 and zero payload beyond can_len, one byte at a time from the
\* initial state, observe() returns None after each of the first 15 bytes and
\* Some(frame) equal to the original after the 16th, and write_to_slice of that
\* frame reproduces the 16 input bytes.
C24_FrameParser ==
    ZeroTail(rawFrame) =>
        /\ \A k \in 1 .. Len(rawObs) :
                rawObs[k] = IF k = 16 THEN Some(rawFrame) ELSE None
        /\ rawOut # <<>> => rawOut = rawIn

C24_Witness ==
    /\ rawFrame = CANFrame(1794, 8, <<127, 126, 125, 124, 0, 1, 2, 3>>)
    /\ Len(rawObs) = 16
    /\ rawObs[16] = Some(rawFrame)
    /\ rawOut = <<2, 7, 0, 0, 8, 0, 0, 0, 127, 126, 125, 124, 0, 1, 2, 3>>

----------------------------------------------------------------------------
(* Toggles, cursors and unexpected responses *)

\* C25: upload request toggles alternate. The UploadSegment request emitted after
\* UploadInitMultiples carries toggle false; the request emitted in
\* UploadingMultiples(t) carries t; and t flips only when a segment carrying the
\* current toggle, not the last one, is accepted.
C25_Step ==
    /\ (state.tag = "InitUpload" /\ state'.tag = "UploadingMultiples") =>
            /\ last'.op = "transit"
            /\ last'.arg[1] = "UploadInitMultiples"
            /\ state'.toggle = FALSE
    /\ (last'.op = "observe" /\ state.tag = "UploadingMultiples") =>
            obs' = Output(ReqUploadSegment(state.toggle))
    /\ (obs'[1] = "Output" /\ obs'[2][1] = "UploadSegment") =>
            state.tag = "UploadingMultiples"
    /\ (state.tag = "UploadingMultiples" /\ state'.tag = "UploadingMultiples") =>
            IF /\ last'.op = "transit"
               /\ last'.arg[1] = "UploadMultiples"
               /\ last'.arg[2] = state.toggle
               /\ ~last'.arg[3]
            THEN state'.toggle = ~state.toggle
            ELSE state'.toggle = state.toggle

C25_UploadTogglesAlternate == [][C25_Step]_vars

C25_Witness ==
    /\ last.op = "observe"
    /\ obs = Output(ReqUploadSegment(TRUE))
    /\ state = UploadingMultiples(TRUE)
    /\ data_index = 7

\* the cursor at the time DownloadInitAck was accepted: every acknowledgement after it
\* but the completing one advanced the cursor by 7
DownStart ==
    data_index - 7 * (IF state.tag = "DownloadCompleted" THEN acks - 2 ELSE acks - 1)

\* C26: download acknowledgement progress. In DownloadingSegments(t, n) an
\* acknowledgement carrying t flips the toggle and advances data_index by 7 while
\* data_index + 7 < n, and otherwise moves the machine to DownloadCompleted; when
\* data_index was 0 at the DownloadInitAck, exactly ceil(n / 7) matching
\* acknowledgements complete a download of n > 4 bytes.
C26_Step ==
    /\ (/\ state.tag = "DownloadingSegments"
        /\ last'.op = "transit"
        /\ last'.arg = DownloadSegmentAck(state.toggle)) =>
            IF data_index + 7 < state.n
            THEN /\ state' = DownloadingSegments(~state.toggle, state.n)
                 /\ data_index' = data_index + 7
            ELSE state' = DownloadCompleted
    /\ (/\ state.tag = "DownloadingSegments"
        /\ state'.tag = "DownloadCompleted"
        /\ DownStart' = 0) =>
            /\ state.n = Len(wval)
            /\ acks' - 1 = DownSegments(state.n)

C26_AckProgress == [][C26_Step]_vars

C26_Witness ==
    /\ state = DownloadCompleted
    /\ Len(wval) = 15
    /\ data_index = 14
    /\ acks = 4
    /\ last.arg = DownloadSegmentAck(FALSE)

\* C27: download segment emission rule. In DownloadingSegments(t, n) with cursor
\* c = data_index, observe() returns Output(DownloadSegment(t, last, seg_len, d)) with
\* seg_len = min(n - c, 7), last = (c + 7 >= n), d[0..seg_len] = buffer[c..c+seg_len]
\* and the remaining bytes of d zero.
C27_SegmentEmission ==
    (last.op = "observe" /\ state.tag = "DownloadingSegments") =>
        LET c == data_index
            seg_len == Min(state.n - c, 7)
        IN  obs = Output(ReqDownloadSegment(state.toggle, c + 7 >= state.n, seg_len,
                                            PadTo(Slice(data, c, c + seg_len), 7)))

\* C28: in every state reachable by read, write, transit, observe and initial calls,
\* a machine in DownloadingSegments(t, n) has data_index < n.
C28_CursorBelowLength ==
    state.tag = "DownloadingSegments" => data_index < state.n

\* C29: in every state reachable by read, write (of at most 1024 bytes), transit,
\* observe and initial calls, data_index is at most the buffer capacity of 1024.
C29_CursorWithinCapacity == data_index <= DATA_LEN

C29_Witness ==
    /\ state = DownloadingSegments(TRUE, DATA_LEN)
    /\ data_index = DATA_LEN - 7
    /\ last.op = "transit"
    /\ ~panicked

\* the response variants each state accepts, as the transition table lists them
Accepts(tag, variant) ==
    \/ tag = "InitUpload" /\ variant \in {"UploadSingleSegment", "UploadInitMultiples"}
    \/ tag = "UploadingMultiples" /\ variant = "UploadMultiples"
    \/ tag \in {"InitSingleDownload", "InitMultipleDownload"} /\ variant = "DownloadInitAck"
    \/ tag = "DownloadingSegments" /\ variant = "DownloadSegmentAck"

\* C30: unexpected responses. A response whose variant the current state does not
\* accept moves the machine to ErrorState(StateResponseMismatch) and leaves the
\* active index, the buffer and data_index unchanged.
C30_Step ==
    (StepOp("transit") /\ ~Accepts(state.tag, last'.arg[1])) =>
        /\ state' = ErrorState(StateResponseMismatch)
        /\ UNCHANGED <<index, data, data_index>>
        /\ ~panicked'

C30_UnexpectedResponses == [][C30_Step]_vars

C30_Witness ==
    /\ last.op = "transit"
    /\ last.pre = "UploadingMultiples"
    /\ last.arg[1] = "DownloadSegmentAck"
    /\ state = ErrorState(StateResponseMismatch)
    /\ data_index = 7
    /\ index = Index(4096, 1)


----------------------------------------------------------------------------
(* Observation idempotence *)

OutputTags ==
    {"InitUpload", "UploadingMultiples", "InitSingleDownload", "InitMultipleDownload",
     "DownloadingSegments"}

DoneTags == {"SingleSegmentUploaded", "MultiplesUploaded", "DownloadCompleted"}

\* the responder a Done state holds for its result
StoredResponder ==
    IF state.tag = "DownloadCompleted" THEN write_responder ELSE read_responder

\* a Done observation with its responder emptied
WithoutResponder(o) ==
    IF o[2][1] = "UploadCompleted"
    THEN Done(UploadCompleted(o[2][2], o[2][3], o[2][4], None))
    ELSE Done(DownloadCompletedRes(None))

\* C31: observation idempotence. In an output-bearing state and in ErrorState every
\* observe() returns a value, a repeated observe() returns the same value, and the
\* machine is not changed; in a Done state the first observe() returns the stored
\* responder, every later one the same result with an empty responder, and state,
\* index, buffer and data_index are unchanged.
C31_Step ==
    StepOp("observe") =>
        /\ state.tag \in OutputTags \cup {"ErrorState"} =>
              /\ ~panicked'
              /\ obs'[1] = (IF state.tag = "ErrorState" THEN "Error" ELSE "Output")
              /\ last.op = "observe" => obs' = obs
              /\ UNCHANGED machineVars
        /\ state.tag \in DoneTags =>
              /\ obs'[1] = "Done"
              /\ UNCHANGED <<state, index, data, data_index>>
              /\ last.op # "observe" => ResponderOf(obs') = StoredResponder
              /\ last.op = "observe" =>
                    /\ ResponderOf(obs') = None
                    /\ obs' = WithoutResponder(obs)

C31_ObservationIdempotent == [][C31_Step]_vars


----------------------------------------------------------------------------
(* Abort frames from the peer *)

\* the abort code in bytes 4..8 of the abort payload of LoopRawPayloads
AbortFrameCode == AbortCodeFrom(FromLeBytes(<<0, 0, 4, 5>>))

\* C32: peer-initiated abort. When an SdoResp frame with command byte 0x80 (server
\* command specifier 4) arrives while a request is outstanding, the transfer ends
\* and the caller gets a Done(TransferAborted(code)) observation; the loop goes on.
C32_Step ==
    (/\ ev'.kind = "rx" /\ ev'.route = "SdoResp" /\ ev'.cs = 4
     /\ outstanding > 0 /\ state.tag \in BusyTags) =>
        /\ running'
        /\ obs' = Done(TransferAborted(AbortFrameCode))
        /\ ~(state'.tag \in BusyTags)

C32_PeerAbort == [][C32_Step]_vars


----------------------------------------------------------------------------
(* Download initiate requests taken from the bus *)

\* C33: a received client request with command specifier InitDownload (byte 0 & 0xE0
\* = 0x20), e = 1 and s = 0 decodes to Ok(InitSingleSegmentDownload(ix, 0, data))
\* with ix from bytes 1..4 and data from bytes 4..8.
C33_ExpeditedUnsizedDecodes ==
    (/\ creq = FromWire
     /\ cdec # <<"none">>
     /\ cbuf[1] \div 32 = 1
     /\ (cbuf[1] \div 2) % 2 = 1
     /\ cbuf[1] % 2 = 0) =>
        cdec = <<"Ok", ReqInitSingleSegmentDownload(Index(cbuf[2] + 256 * cbuf[3], cbuf[4]), 0,
                                                     <<cbuf[5], cbuf[6], cbuf[7], cbuf[8]>>)>>


----------------------------------------------------------------------------
(* Where a segmented download starts *)

\* C34: a segmented download starts at the beginning of the written value. When
\* transit(DownloadInitAck) takes the machine from InitMultipleDownload to
\* DownloadingSegments, data_index is 0, whatever transfers ran on the machine
\* before, and the first segment observed carries bytes 0..7 of the value written.
C34_Step ==
    /\ (/\ StepOp("transit")
        /\ state.tag = "InitMultipleDownload"
        /\ state'.tag = "DownloadingSegments") => data_index' = 0
    /\ (/\ StepOp("observe")
        /\ last.op = "transit" /\ last.pre = "InitMultipleDownload"
        /\ state.tag = "DownloadingSegments") =>
            /\ obs'[1] = "Output"
            /\ obs'[2][1] = "DownloadSegment"
            /\ obs'[2][5] = SubSeq(wval, 1, 7)

C34_DownloadStartsAtZero == [][C34_Step]_vars


----------------------------------------------------------------------------
(* Transfers and nodes *)

\* C35: a transfer stays bound to its node. Every request frame sent during a
\* transfer started by Read(node, ..) or Write(node, ..) carries COB-ID 0x600 | node
\* of that command, and an SdoResp frame from another node that arrives while the
\* transfer is in progress does not advance it.
C35_Step ==
    /\ (ev'.kind = "cmd" /\ ev'.accepted) =>
            \A k \in DOMAIN sent' : sent'[k].can_cobid = 1536 + bind'.node
    /\ (ev'.kind = "rx" /\ ev'.route = "SdoResp" /\ state.tag \in BusyTags) =>
            /\ \A k \in DOMAIN sent' : sent'[k].can_cobid = 1536 + bind.node
            /\ bind'.from # bind.node => (MachineUntouched /\ sent' = <<>>)

C35_TransferBoundToNode == [][C35_Step]_vars


----------------------------------------------------------------------------
(* Whose responder a Done observation returns *)

\* the responder passed to the most recent read or write: responders are numbered
\* in the order of the calls that pass them
LatestResponder == nextResp - 1

\* C36: the responder returned by a Done observation is the one passed to the read
\* or write that started the transfer that just completed: UploadCompleted carries
\* the responder of the most recent read, which was the most recent arming call,
\* DownloadCompleted that of the most recent write, and the first observation of a
\* completed transfer does carry it. A responder left in the machine by an earlier
\* transfer is never returned.
C36_Step ==
    (StepOp("observe") /\ obs'[1] = "Done") =>
        /\ ResponderOf(obs') # None =>
              /\ ResponderOf(obs') = Some(LatestResponder)
              /\ obs'[2][1] = "UploadCompleted" => rrArg[2] = LatestResponder
              /\ obs'[2][1] = "DownloadCompleted" => rwArg[2] = LatestResponder
        /\ last.op # "observe" => ResponderOf(obs') # None

C36_ResponderOfCompletedTransfer == [][C36_Step]_vars

\* a download completed and returned responder 2 while the responder of an upload
\* that ended in an error is still in the machine
C36_Witness ==
    /\ last.op = "observe"
    /\ obs = Done(DownloadCompletedRes(Some(2)))
    /\ read_responder = Some(1)
    /\ rrArg[2] = 1


----------------------------------------------------------------------------
(* The loop after a frame that does not decode *)

\* C37: the dispatch loop survives an undecodable frame. After an inbound SdoResp
\* frame whose payload fails to decode, run() has not returned: the loop is still
\* running and takes the next host command or inbound frame.
C37_Step == (ev'.kind = "rx" /\ ev'.unknown) => running'

C37_LoopSurvivesDecodeError == [][C37_Step]_vars


----------------------------------------------------------------------------
(* Guard failures on download acknowledgements *)

\* C38: in InitSingleDownload or InitMultipleDownload a DownloadInitAck whose index
\* differs from the active one gives ErrorState(IndexMismatch(received, active)); in
\* DownloadingSegments(t, n) a DownloadSegmentAck whose toggle differs from t gives
\* ErrorState(ToggleMismatch); data_index is unchanged in both cases.
C38_Step ==
    /\ (/\ IsTransitOf("DownloadInitAck")
        /\ state.tag \in {"InitSingleDownload", "InitMultipleDownload"}
        /\ last'.arg[2] # index) =>
            /\ state' = ErrorState(IndexMismatch(last'.arg[2], index))
            /\ data_index' = data_index
    /\ (/\ IsTransitOf("DownloadSegmentAck")
        /\ state.tag = "DownloadingSegments"
        /\ last'.arg[2] # state.toggle) =>
            /\ state' = ErrorState(ToggleMismatch)
            /\ data_index' = data_index

C38_DownloadGuardFailures == [][C38_Step]_vars

\* the second acknowledgement of a 14-byte download came with the wrong toggle
C38_Witness ==
    /\ last.op = "transit" /\ last.arg = DownloadSegmentAck(FALSE)
    /\ last.pre = "DownloadingSegments"
    /\ state = ErrorState(ToggleMismatch)
    /\ data_index = 7
    /\ Len(wval) = 14


----------------------------------------------------------------------------
(* The range of decoded responses *)

\* C39: every response the decoder returns Ok for has an expedited byte count of at
\* most 4 and a segment length of at most 7, and transit, fed with decoded
\* responses in whatever state it is, never slices the segment payload or the
\* buffer out of range (it never panics).
C39_DecodedResponsesInRange ==
    last.op = "transit" =>
        /\ last.arg[1] = "UploadSingleSegment" => last.arg[3] \in 0 .. 4
        /\ last.arg[1] = "UploadMultiples" => last.arg[4] \in 0 .. 7
        /\ ~panicked
        /\ data_index <= DATA_LEN

\* decoded segments filled the buffer up to its last byte
C39_Witness ==
    /\ last.op = "transit"
    /\ last.arg[1] = "UploadMultiples" /\ last.arg[4] = 7
    /\ last.pre = "UploadingMultiples"
    /\ state.tag = "UploadingMultiples"
    /\ data_index = DATA_LEN


----------------------------------------------------------------------------
(* SpecServe: the dispatch loop against a conforming SDO server. The server holds
   the request frame sent last, answers it with the frame of the CiA 301 layout for
   the matching response, and that frame is delivered to the loop; send_frame
   succeeds *)

\* the objects the server may hold at the index read, by their bytes
ServeObjects ==
    { [k \in 1 .. n |-> (100 + k) % 256] : n \in {1, 4, 5, 7, 8, MaxUploadBytes, DATA_LEN} }

\* the frame of a response from the node the request was sent to
ServeFrame(req, payload) == CANFrame(1408 + (req.can_cobid % 128), 8, payload)

\* the SDO abort frame of the server: toggle bit not alternated
ServeAbort == <<128, 0, 0, 0, 0, 0, 3, 5>>

\* the request handed to send_frame by an event, if any, replaces the one held
ServeRequest(h) == IF h.sent # <<>> THEN Some(h.sent[1]) ELSE None

\* CANEvent::Cmd(ClientCmd::Read(node, index, resp))
ServeRead ==
    /\ running /\ ~panicked
    /\ nextResp <= MaxResp
    /\ \E node \in LoopNodes, ix \in ArmIx :
        LET h == HandleCmd("Read", node, ix, <<>>, nextResp, TRUE)
        IN  /\ Apply(CmdEvent("Read", node), h)
            /\ rrArg' = IF h.accepted THEN <<ix, nextResp>> ELSE rrArg
            /\ nextResp' = IF Len(h.calls) > 1 THEN nextResp + 1 ELSE nextResp
            /\ srv' = IF h.accepted THEN [srv EXCEPT !.req = ServeRequest(h), !.resp = None]
                      ELSE srv
    /\ UNCHANGED <<rwArg, wval, bind>>

\* the initiate response of the server for an object: expedited for up to 4 bytes
\* (command byte 0x42 when the size is not indicated), segmented otherwise (size
\* field 0 when the size is not indicated)
ServeInitData(ix, obj, sized) ==
    IF Len(obj) <= 4
    THEN IF sized THEN ServerTable(UploadSingleSegment(ix, Len(obj), PadTo(obj, 4)))
         ELSE <<66>> \o TableIndex(ix) \o PadTo(obj, 4)
    ELSE ServerTable(UploadInitMultiples(ix, IF sized THEN Len(obj) ELSE 0))

\* the server answers an upload initiate request: expedited for an object of up to
\* 4 bytes, segmented otherwise
ServeInit ==
    /\ srv.req # None /\ srv.resp = None
    /\ DecodeClientRequest(srv.req[1].can_data)[2][1] = "InitUpload"
    /\ \E obj \in ServeObjects, sized \in BOOLEAN :
        LET ix == DecodeClientRequest(srv.req[1].can_data)[2][2]
        IN  srv' = [obj |-> obj, pos |-> 0, toggle |-> FALSE, req |-> None,
                    resp |-> Some(ServeFrame(srv.req[1], ServeInitData(ix, obj, sized)))]
    /\ UNCHANGED <<running, sent, dictSet, delivered, ev, outstanding, bind>>
    /\ UNCHANGED machineVars
    /\ UNCHANGED histVars
    /\ UNCHANGED codecVars
    /\ UNCHANGED frameVars

\* the server answers an upload segment request: the next bytes of the object with
\* its own toggle, or an abort when the toggle of the request is not the one it
\* expects
ServeSegment ==
    /\ srv.req # None /\ srv.resp = None
    /\ DecodeClientRequest(srv.req[1].can_data)[2][1] = "UploadSegment"
    /\ LET t == DecodeClientRequest(srv.req[1].can_data)[2][2]
           n == Min(7, Len(srv.obj) - srv.pos)
           resp == UploadMultiples(srv.toggle, srv.pos + n = Len(srv.obj), n,
                                   PadTo(SubSeq(srv.obj, srv.pos + 1, srv.pos + n), 7))
       IN  srv' = IF t = srv.toggle
                  THEN [srv EXCEPT !.pos = srv.pos + n, !.toggle = ~srv.toggle,
                                   !.req = None,
                                   !.resp = Some(ServeFrame(srv.req[1], ServerTable(resp)))]
                  ELSE [srv EXCEPT !.req = None,
                                   !.resp = Some(ServeFrame(srv.req[1], ServeAbort))]
    /\ UNCHANGED <<running, sent, dictSet, delivered, ev, outstanding, bind>>
    /\ UNCHANGED machineVars
    /\ UNCHANGED histVars
    /\ UNCHANGED codecVars
    /\ UNCHANGED frameVars

\* CANEvent::Rx(frame) with the response in flight
ServeRx ==
    /\ running /\ ~panicked
    /\ srv.resp # None
    /\ \E cv \in CvOutcomes(HandleRx(srv.resp[1], TRUE, TRUE)) :
        LET h == HandleRx(srv.resp[1], TRUE, cv)
        IN  /\ Apply(RxEvent(srv.resp[1]), h)
            /\ srv' = [srv EXCEPT !.req = ServeRequest(h), !.resp = None]
    /\ UNCHANGED <<rrArg, rwArg, wval, nextResp, bind>>

NextServe == ServeRead \/ ServeInit \/ ServeSegment \/ ServeRx

SpecServe == Init /\ [][NextServe]_vars

\* ServeRx is enabled exactly when the loop runs and a response is on the bus: its
\* only other conjuncts choose a value from the non-empty CvOutcomes and assign
\* the primed variables
RxPending == running /\ ~panicked /\ srv.resp # None

\* WF_vars(ServeRx) with ENABLED ServeRx written out as RxPending: every ServeRx
\* step takes the frame off the bus, so the frame is not pending for ever
RxDelivered == []<>(~RxPending)

\* run() takes every event wait_can_event returns, and the server and the bus do
\* not hold a frame for ever
SpecServeFair ==
    /\ SpecServe
    /\ WF_vars(ServeInit) /\ WF_vars(ServeSegment)
    /\ RxDelivered

----------------------------------------------------------------------------
(* Termination of reads *)

\* the Read with responder r was accepted and its request is on its way
ReadAccepted(r) ==
    /\ ev.kind = "cmd" /\ ev.cmd = "Read" /\ ev.accepted
    /\ rrArg[2] = r

\* the loop observed Done(UploadCompleted) carrying responder r, and the machine is
\* in no state that waits for a response
ReadCompleted(r) ==
    /\ obs[1] = "Done" /\ obs[2][1] = "UploadCompleted"
    /\ ResponderOf(obs) = Some(r)
    /\ ~(state.tag \in BusyTags)

\* C40: reads terminate. With a conforming server and fair delivery of frames, every
\* Read command accepted by the loop is followed by a Done(UploadCompleted)
\* observation that carries the responder of that command, after which the machine
\* accepts the next command.
C40_ReadsTerminate == \A r \in 1 .. MaxResp + 1 : ReadAccepted(r) ~> ReadCompleted(r)

\* the second accepted Read ended with the largest object uploaded in segments
C40_Witness ==
    /\ ReadCompleted(2)
    /\ obs[2][4] = MaxUploadBytes
    /\ srv.pos = MaxUploadBytes
    /\ ev.kind = "rx"

============================================================================
